---- MODULE Spec2Model ----
(***************************************************************************)
(* d-CGP: the grid-encoded expression (dcgp::expression<T>).               *)
(*                                                                         *)
(* The state is one expression object: its constructor arguments, the      *)
(* gene bounds m_lb / m_ub, the chromosome m_x and the derived lists       *)
(* m_active_nodes / m_active_genes.  Vectors indexed by the code with      *)
(* operator[] (m_x, m_lb, m_ub, a chromosome handed to set) are functions  *)
(* over 0 .. size-1; vectors the code only appends to and iterates over    *)
(* (m_active_nodes, m_active_genes, current, next) are sequences.          *)
(*                                                                         *)
(* update_data_structures contains the only loop of the class whose exit   *)
(* depends on the chromosome (the do-while over the frontier `current`),   *)
(* so it is modelled one iteration per step, with pc = "uds" while the     *)
(* object is inside it.  Every public method is one step from pc = "idle"  *)
(* up to its call of update_data_structures; the methods that call         *)
(* mutate(idx) in a loop (mutate_active and its variants) take one step    *)
(* per iteration (pc = "loop").  No other method can start before the      *)
(* running one has returned.                                               *)
(*                                                                         *)
(* Inside the do-while the code appends to m_active_nodes and sorts and    *)
(* de-duplicates it once after the loop; the model keeps the list sorted   *)
(* and de-duplicated after every iteration, which gives the same list on   *)
(* exit and keeps the list finite when the loop does not exit.  A pass of   *)
(* the do-while that leaves current and the normalised list as they were   *)
(* is a pass the code repeats for ever: the loop is still running, with    *)
(* m_active_nodes growing by the same elements on every pass.              *)
(*                                                                         *)
(* The rejection sampling do { draw } while (new_value == m_x[idx]) leaves *)
(* the object unchanged on a rejected draw, so a rejected draw is a        *)
(* stuttering step; the steps of the model are the accepted draws.         *)
(***************************************************************************)
EXTENDS Integers, Sequences, FiniteSets, TLC

VARIABLES
    cfg,             \* constructor arguments: m_n, m_m, m_r, m_c, m_l, arity, m_f.size()
    m_lb,            \* lower bound of every gene
    m_ub,            \* upper bound of every gene
    m_x,             \* the chromosome
    m_active_nodes,  \* active node ids
    m_active_genes,  \* active gene positions
    pc,              \* "idle" | "uds" (inside update_data_structures) | "loop" (inside a mutate_active loop)
    current,         \* the frontier of update_data_structures
    left,            \* iterations a mutate_active loop still has to run
    call,            \* the public call that ran last: its name, and whether it threw
    retval,          \* what operator() returned last
    m_weights,       \* expression_ann: the weight of every connection
    m_biases,        \* expression_ann: the bias of every internal node
    grad,            \* expression_ann: what d_loss returned last
    epoch,           \* expression_ann: the position of a running sgd call
    sr,              \* symbolic_regression: the data set, the cache and the last result
    pop              \* momes4cgp: the population being evolved

\* the members of the classes built on top of the expression
others == <<m_weights, m_biases, grad, epoch, sr, pop>>

vars == <<cfg, m_lb, m_ub, m_x, m_active_nodes, m_active_genes, pc, current, left, call, retval,
          m_weights, m_biases, grad, epoch, sr, pop>>

-----------------------------------------------------------------------------
(* Bounds of the model *)

\* largest N handed to mutate_random / mutate_active / ... in one call
MaxN == 2
\* longest index vector handed to mutate(idxs)
MaxIdxs == 2

\* Grid shapes the expression is constructed with.  Every shape has r <= c:
\* init_bounds_and_chromosome reads m_arity[i] for i < m_r, and m_arity has
\* m_c entries.
Shapes ==
    { [n |-> 1, m |-> 2, r |-> 1, c |-> 2, l |-> 3, arity |-> 1, nf |-> 2],
      [n |-> 1, m |-> 2, r |-> 1, c |-> 2, l |-> 2, arity |-> 2, nf |-> 2] }

\* Grid shapes of the specifications that only construct the expression or
\* mutate single genes: the shapes above and a grid with two rows.
GridShapes ==
    Shapes \cup { [n |-> 1, m |-> 2, r |-> 2, c |-> 2, l |-> 3, arity |-> 1, nf |-> 2] }

\* The grid shape of the specification of mutate_random: its output genes
\* have two values other than the current one.
RandomShapes ==
    { [n |-> 1, m |-> 2, r |-> 1, c |-> 2, l |-> 3, arity |-> 1, nf |-> 2] }

-----------------------------------------------------------------------------
(* Vectors *)

Size0(x) == Cardinality(DOMAIN x)

\* the 0-based vector holding the elements of a tuple
Vec(t) == [i \in 0 .. Len(t) - 1 |-> t[i + 1]]

Range(s) == {s[i] : i \in DOMAIN s}

RECURSIVE SortedSeq(_)
\* the elements of a finite set of numbers in ascending order
SortedSeq(S) ==
    IF S = {} THEN <<>>
    ELSE LET mn == CHOOSE a \in S : \A b \in S : a <= b
         IN <<mn>> \o SortedSeq(S \ {mn})

\* std::sort followed by erase(std::unique(...))
SortUnique(s) == SortedSeq(Range(s))

\* all tuples over S of length 0 .. k
TuplesUpTo(S, k) == UNION {[1 .. j -> S] : j \in 0 .. k}

-----------------------------------------------------------------------------
(* Construction: expression::expression, init_bounds_and_chromosome *)

\* chromosome size: r*c + sum(arity)*r + m, m_arity holding c times the arity
ChromosomeSize(s) == s.r * s.c + s.r * (s.c * s.arity) + s.m

RECURSIVE ConnectionBounds(_, _, _, _, _)
\* for (l = 0; l < m_arity[i]; ++l): bounds of the connection genes of one node
ConnectionBounds(s, i, l0, k, b) ==
    IF l0 < s.arity
    THEN LET ub1 == [b.ub EXCEPT ![k] = s.n + i * s.r - 1]
             lb1 == IF i >= s.l THEN [b.lb EXCEPT ![k] = s.n + s.r * (i - s.l)] ELSE b.lb
         IN ConnectionBounds(s, i, l0 + 1, k + 1, [lb |-> lb1, ub |-> ub1])
    ELSE [k |-> k, b |-> b]

RECURSIVE RowLoop(_, _, _, _)
\* for (auto j = 0u; i < m_r; ++i): the loop tests and increments i
RowLoop(s, i, k, b) ==
    IF i < s.r
    THEN LET fb == [lb |-> b.lb, ub |-> [b.ub EXCEPT ![k] = s.nf - 1]]
             cb == ConnectionBounds(s, i, 0, k + 1, fb)
         IN RowLoop(s, i + 1, cb.k, cb.b)
    ELSE [i |-> i, k |-> k, b |-> b]

RECURSIVE ColumnLoop(_, _, _, _)
\* for (auto i = 0u; i < m_c; ++i)
ColumnLoop(s, i, k, b) ==
    IF i < s.c
    THEN LET rl == RowLoop(s, i, k, b)
         IN ColumnLoop(s, rl.i + 1, rl.k, rl.b)
    ELSE b

RECURSIVE OutputBounds(_, _, _)
\* for (auto i = size - 1u - m_m; i < size - 1u; ++i)
OutputBounds(s, i, b) ==
    IF i < ChromosomeSize(s) - 1
    THEN LET ub1 == [b.ub EXCEPT ![i] = s.n + s.r * s.c - 1]
             lb1 == IF s.l <= s.c THEN [b.lb EXCEPT ![i] = s.n + s.r * (s.c - s.l)] ELSE b.lb
         IN OutputBounds(s, i + 1, [lb |-> lb1, ub |-> ub1])
    ELSE b

\* the bounds init_bounds_and_chromosome leaves in m_lb and m_ub
init_bounds_and_chromosome(s) ==
    LET zero == [i \in 0 .. ChromosomeSize(s) - 1 |-> 0]
        nodes == ColumnLoop(s, 0, 0, [lb |-> zero, ub |-> zero])
    IN OutputBounds(s, ChromosomeSize(s) - 1 - s.m, nodes)

RECURSIVE GenesWithin(_, _, _)
\* all vectors x of the size of lb with lb[i] <= x[i] <= ub[i]: the chromosomes
\* the constructor's uniform draws can produce
GenesWithin(lb, ub, k) ==
    IF k = 0 THEN {<<>>}
    ELSE {Append(t, v) : t \in GenesWithin(lb, ub, k - 1), v \in lb[k - 1] .. ub[k - 1]}

RandomChromosomes(lb, ub) == {Vec(t) : t \in GenesWithin(lb, ub, Size0(lb))}

-----------------------------------------------------------------------------
(* Validity *)

\* expression::is_valid
\* is_valid without the test of the lower bound
is_valid_upper(x) ==
    /\ Size0(x) = Size0(m_lb)
    /\ \A i \in DOMAIN x : ~(x[i] > m_ub[i])

is_valid(x) ==
    /\ Size0(x) = Size0(m_lb)
    /\ \A i \in DOMAIN x : ~((x[i] > m_ub[i]) \/ (x[i] < m_lb[i]))

-----------------------------------------------------------------------------
(* update_data_structures *)

\* position of the first output gene: (m_arity + 1) * m_r * m_c
OutputStart == (cfg.arity + 1) * cfg.r * cfg.c

\* current[i] = m_x[(m_arity + 1) * m_r * m_c + i]
OutputConnections(x) == [i \in 1 .. cfg.m |-> x[OutputStart + i - 1]]

\* the loop over the connection genes running over i = 0 .. m_arity - 1
NodeConnectionsFromZero(x, node_id) ==
    [i \in 1 .. cfg.arity |-> x[(node_id - cfg.n) * (cfg.arity + 1) + i - 1]]

\* for (i = 1; i <= m_arity; ++i) next.push_back(m_x[(node_id - m_n) * (m_arity + 1) + i])
NodeConnections(x, node_id) ==
    [i \in 1 .. cfg.arity |-> x[(node_id - cfg.n) * (cfg.arity + 1) + i]]

RECURSIVE Expand(_, _, _, _)
\* for (auto node_id : current): what is appended to next and to m_active_nodes
Expand(x, cur, k, acc) ==
    IF k > Len(cur) THEN acc
    ELSE IF cur[k] >= cfg.n
         THEN Expand(x, cur, k + 1, [acc EXCEPT !.next = @ \o NodeConnections(x, cur[k])])
         ELSE Expand(x, cur, k + 1, [acc EXCEPT !.nodes = Append(@, cur[k])])

\* one pass of the do-while body: the new frontier and the nodes collected so far
Frontier(x, nodes, cur) ==
    LET e == Expand(x, cur, 1, [next |-> <<>>, nodes |-> nodes \o cur])
    IN [next |-> SortUnique(e.next), nodes |-> SortUnique(e.nodes)]

RECURSIVE NodeGenes(_, _, _)
\* the first loop filling m_active_genes: idx + j for j = 0 .. m_arity of every active internal node
NodeGenes(nodes, i, acc) ==
    IF i > Len(nodes) THEN acc
    ELSE IF nodes[i] >= cfg.n
         THEN LET idx == (nodes[i] - cfg.n) * (cfg.arity + 1)
              IN NodeGenes(nodes, i + 1, acc \o [j \in 1 .. cfg.arity + 1 |-> idx + j - 1])
         ELSE NodeGenes(nodes, i + 1, acc)

\* m_active_genes: the genes of the active internal nodes, then the output genes
ActiveGenes(nodes) ==
    NodeGenes(nodes, 1, <<>>) \o [i \in 1 .. cfg.m |-> cfg.r * cfg.c * (cfg.arity + 1) + i - 1]

\* where control goes when update_data_structures returns: back into the
\* mutate_active loop that called mutate(idx), or out of the public call
AfterUpdate == IF left > 0 THEN "loop" ELSE "idle"

\* entry of update_data_structures up to the do-while, for the chromosome x
EnterUpdate(x) ==
    /\ pc' = "uds"
    /\ current' = OutputConnections(x)
    /\ m_active_nodes' = <<>>
    /\ UNCHANGED m_active_genes

\* an iteration of the do-while that leaves a non-empty frontier
UpdateIterate ==
    /\ pc = "uds"
    /\ LET f == Frontier(m_x, m_active_nodes, current)
       IN /\ Len(f.next) > 0
          /\ current' = f.next
          /\ m_active_nodes' = f.nodes
    /\ UNCHANGED <<cfg, m_lb, m_ub, m_x, m_active_genes, pc, left, call, retval>>
    /\ UNCHANGED others

\* the last iteration of the do-while and the rest of update_data_structures
UpdateFinish ==
    /\ pc = "uds"
    /\ LET f == Frontier(m_x, m_active_nodes, current)
       IN /\ Len(f.next) = 0
          /\ current' = f.next
          /\ m_active_nodes' = f.nodes
          /\ m_active_genes' = ActiveGenes(f.nodes)
    /\ pc' = AfterUpdate
    /\ UNCHANGED <<cfg, m_lb, m_ub, m_x, left, call, retval>>
    /\ UNCHANGED others

-----------------------------------------------------------------------------
(* Init: the constructor, up to its call of update_data_structures *)

\* an expression on its own: there is no object of the classes built on top of it
NoOthers ==
    /\ m_weights = <<>>
    /\ m_biases = <<>>
    /\ grad = <<>>
    /\ epoch = <<>>
    /\ sr = <<>>
    /\ pop = <<>>

ExpressionConstructed(s) ==
    LET b == init_bounds_and_chromosome(s)
    IN /\ cfg = s
       /\ m_lb = b.lb
       /\ m_ub = b.ub
       /\ m_x \in RandomChromosomes(b.lb, b.ub)
       /\ m_active_nodes = <<>>
       /\ m_active_genes = <<>>
       /\ pc = "uds"
       /\ current = [i \in 1 .. s.m |-> m_x[(s.arity + 1) * s.r * s.c + i - 1]]
       /\ left = 0
       /\ call = [name |-> "expression", threw |-> FALSE]
       /\ retval = <<>>

Constructed(s) == ExpressionConstructed(s) /\ NoOthers

Init == \E s \in Shapes : Constructed(s)

InitGrid == \E s \in GridShapes : Constructed(s)

InitRandom == \E s \in RandomShapes : Constructed(s)

-----------------------------------------------------------------------------
(* Mutation *)

\* the draw taken from [m_lb[idx], m_ub[idx] + 1]
NewValuesAbove(x, idx) == {v \in m_lb[idx] .. m_ub[idx] + 1 : v # x[idx]}

\* the draw accepted without the rejection of the current value
NewValuesNoReject(x, idx) == m_lb[idx] .. m_ub[idx]

\* do { new_value = uniform(lb, ub) } while (new_value == m_x[idx]): the values
\* the loop can end with
NewValues(x, idx) == {v \in m_lb[idx] .. m_ub[idx] : v # x[idx]}

\* the body of mutate(idx) before update_data_structures: the chromosomes it can
\* leave, whether it changed a gene, whether it threw
MutateGene(x, idx) ==
    IF idx >= Size0(x)
    THEN {[x |-> x, changed |-> FALSE, threw |-> TRUE]}
    ELSE IF m_lb[idx] < m_ub[idx]
         THEN {[x |-> [x EXCEPT ![idx] = v], changed |-> TRUE, threw |-> FALSE] : v \in NewValues(x, idx)}
         ELSE {[x |-> x, changed |-> FALSE, threw |-> FALSE]}

\* mutate(unsigned idx)
Mutate(idx) ==
    /\ pc = "idle"
    /\ \E o \in MutateGene(m_x, idx) :
         /\ m_x' = o.x
         /\ call' = [name |-> "mutate", threw |-> o.threw]
         /\ IF o.changed
            THEN EnterUpdate(o.x)
            ELSE UNCHANGED <<pc, current, m_active_nodes, m_active_genes>>
    /\ UNCHANGED <<cfg, m_lb, m_ub, left, retval>>
    /\ UNCHANGED others

MutateAny == \E idx \in 0 .. Size0(m_x) : Mutate(idx)

RECURSIVE MutateGenes(_, _, _, _)
\* the loop of mutate(std::vector<unsigned> idxs) from position i on: the
\* chromosomes it can leave, the flag, whether it threw
MutateGenes(x, idxs, i, flag) ==
    IF i > Len(idxs)
    THEN {[x |-> x, flag |-> flag, threw |-> FALSE]}
    ELSE IF idxs[i] >= Size0(x)
         THEN {[x |-> x, flag |-> flag, threw |-> TRUE]}
         ELSE IF m_lb[idxs[i]] < m_ub[idxs[i]]
              THEN UNION {MutateGenes([x EXCEPT ![idxs[i]] = v], idxs, i + 1, TRUE) :
                              v \in NewValues(x, idxs[i])}
              ELSE MutateGenes(x, idxs, i + 1, flag)

\* mutate(std::vector<unsigned> idxs)
MutateIdxs(idxs) ==
    /\ pc = "idle"
    /\ \E o \in MutateGenes(m_x, idxs, 1, FALSE) :
         /\ m_x' = o.x
         /\ call' = [name |-> "mutate_idxs", threw |-> o.threw]
         /\ IF o.flag /\ ~o.threw
            THEN EnterUpdate(o.x)
            ELSE UNCHANGED <<pc, current, m_active_nodes, m_active_genes>>
    /\ UNCHANGED <<cfg, m_lb, m_ub, left, retval>>
    /\ UNCHANGED others

MutateIdxsAny == \E idxs \in TuplesUpTo(0 .. Size0(m_x), MaxIdxs) : MutateIdxs(idxs)

\* idx = uniform(0, m_lb.size() - 1): the positions one draw can give
RandomPositions == 0 .. Size0(m_lb) - 1

RECURSIVE RandomGenesFirst(_, _, _, _)
\* the loop of mutate_random(N) drawing idx once, before the loop
RandomGenesFirst(x, sel, i, flag) ==
    IF i > Len(sel)
    THEN {[x |-> x, flag |-> flag]}
    ELSE IF m_lb[sel[1]] < m_ub[sel[1]]
         THEN UNION {RandomGenesFirst([x EXCEPT ![sel[1]] = v], sel, i + 1, TRUE) :
                         v \in NewValues(x, sel[1])}
         ELSE RandomGenesFirst(x, sel, i + 1, flag)

RECURSIVE RandomGenes(_, _, _, _)
\* the loop of mutate_random(N) when its draws of idx are sel[i], sel[i+1], ...
RandomGenes(x, sel, i, flag) ==
    IF i > Len(sel)
    THEN {[x |-> x, flag |-> flag]}
    ELSE IF m_lb[sel[i]] < m_ub[sel[i]]
         THEN UNION {RandomGenes([x EXCEPT ![sel[i]] = v], sel, i + 1, TRUE) :
                         v \in NewValues(x, sel[i])}
         ELSE RandomGenes(x, sel, i + 1, flag)

\* mutate_random(N) when its N draws of idx are sel
MutateRandomDraws(sel) ==
    /\ pc = "idle"
    /\ \E o \in RandomGenes(m_x, sel, 1, FALSE) :
         /\ m_x' = o.x
         /\ call' = [name |-> "mutate_random", threw |-> FALSE]
         /\ IF o.flag
            THEN EnterUpdate(o.x)
            ELSE UNCHANGED <<pc, current, m_active_nodes, m_active_genes>>
    /\ UNCHANGED <<cfg, m_lb, m_ub, left, retval>>
    /\ UNCHANGED others

\* mutate_random(N)
MutateRandom(N) == \E sel \in [1 .. N -> RandomPositions] : MutateRandomDraws(sel)

MutateRandomAny == \E N \in 0 .. MaxN : MutateRandom(N)

\* the methods that call mutate(idx) once per iteration of a for loop
LoopMethods == {"mutate_active", "mutate_active_fgene", "mutate_active_cgene"}

\* entry of mutate_active(N), mutate_active_fgene(N), mutate_active_cgene(N):
\* the latter two do nothing unless m_active_genes.size() > m_m
EnterLoop(name, N) ==
    /\ pc = "idle"
    /\ call' = [name |-> name, threw |-> FALSE]
    /\ IF N > 0 /\ (name = "mutate_active" \/ Len(m_active_genes) > cfg.m)
       THEN pc' = "loop" /\ left' = N
       ELSE UNCHANGED <<pc, left>>
    /\ UNCHANGED <<cfg, m_lb, m_ub, m_x, m_active_nodes, m_active_genes, current, retval>>
    /\ UNCHANGED others

MutateActive == \E N \in 0 .. MaxN : EnterLoop("mutate_active", N)

MutateActiveFgene == \E N \in 0 .. MaxN : EnterLoop("mutate_active_fgene", N)

MutateActiveCgene == \E N \in 0 .. MaxN : EnterLoop("mutate_active_cgene", N)

\* the gene positions one iteration of the running loop can hand to mutate(idx)
LoopTargets ==
    LET A == Len(m_active_genes)
        gene(idx) == m_active_genes[idx + 1]
        fgene(idx) == gene(idx) - (gene(idx) % (cfg.arity + 1))
    IN CASE call.name = "mutate_active" ->
              {gene(idx) : idx \in 0 .. A - 1}
         [] call.name = "mutate_active_fgene" ->
              {fgene(idx) : idx \in 0 .. A - 1 - cfg.m}
         [] call.name = "mutate_active_cgene" ->
              {fgene(idx) + d : idx \in 0 .. A - 1 - cfg.m, d \in 1 .. cfg.arity}

\* one iteration of the for loop: draw a gene, mutate(idx)
LoopIterate ==
    /\ pc = "loop"
    /\ \E g \in LoopTargets : \E o \in MutateGene(m_x, g) :
         /\ m_x' = o.x
         /\ call' = [call EXCEPT !.threw = o.threw]
         /\ left' = IF o.threw THEN 0 ELSE left - 1
         /\ IF o.changed
            THEN EnterUpdate(o.x)
            ELSE /\ pc' = IF left' > 0 THEN "loop" ELSE "idle"
                 /\ UNCHANGED <<current, m_active_nodes, m_active_genes>>
    /\ UNCHANGED <<cfg, m_lb, m_ub, retval>>
    /\ UNCHANGED others

\* the index mutate_ogene(N) reads m_active_genes with.  With m_m > 1 and
\* N = 0 the loop assigning idx does not run and idx is read uninitialised.
OgeneTargets(N) ==
    LET A == Len(m_active_genes)
    IN IF cfg.m > 1
       THEN IF N > 0
            THEN {m_active_genes[idx + 1] : idx \in A - cfg.m .. A - 1}
            ELSE 0 .. Size0(m_x)
       ELSE {m_active_genes[A]}

\* mutate_ogene(N)
MutateOgene(N) ==
    /\ pc = "idle"
    /\ \E g \in OgeneTargets(N) : \E o \in MutateGene(m_x, g) :
         /\ m_x' = o.x
         /\ call' = [name |-> "mutate_ogene", threw |-> o.threw]
         /\ IF o.changed
            THEN EnterUpdate(o.x)
            ELSE UNCHANGED <<pc, current, m_active_nodes, m_active_genes>>
    /\ UNCHANGED <<cfg, m_lb, m_ub, left, retval>>
    /\ UNCHANGED others

MutateOgeneAny == \E N \in 0 .. MaxN : MutateOgene(N)

-----------------------------------------------------------------------------
(* set, set_f_gene *)

\* set storing x without the test of is_valid and without the refresh
SetUnchecked(x) ==
    /\ pc = "idle"
    /\ call' = [name |-> "set", threw |-> FALSE]
    /\ m_x' = x
    /\ UNCHANGED <<cfg, m_lb, m_ub, left, retval, pc, current, m_active_nodes, m_active_genes>>
    /\ UNCHANGED others

\* expression::set
Set(x) ==
    /\ pc = "idle"
    /\ IF ~is_valid(x)
       THEN /\ call' = [name |-> "set", threw |-> TRUE]
            /\ UNCHANGED <<m_x, pc, current, m_active_nodes, m_active_genes>>
       ELSE /\ call' = [name |-> "set", threw |-> FALSE]
            /\ m_x' = x
            /\ EnterUpdate(x)
    /\ UNCHANGED <<cfg, m_lb, m_ub, left, retval>>
    /\ UNCHANGED others

\* chromosomes handed to set: every vector within the bounds, and the current
\* chromosome with its last gene dropped, with a gene appended, and with one
\* gene moved just outside its bounds
SetInputs ==
    LET size == Size0(m_x)
    IN RandomChromosomes(m_lb, m_ub)
       \cup {[i \in 0 .. size - 2 |-> m_x[i]]}
       \cup {[i \in 0 .. size |-> IF i < size THEN m_x[i] ELSE 0]}
       \cup {[m_x EXCEPT ![i] = m_ub[i] + 1] : i \in 0 .. size - 1}
       \cup {[m_x EXCEPT ![i] = m_lb[i] - 1] : i \in {j \in 0 .. size - 1 : m_lb[j] > 0}}

SetAny == \E x \in SetInputs : Set(x)

\* expression::set_f_gene
SetFGene(node_id, f_id) ==
    /\ pc = "idle"
    /\ IF f_id > cfg.nf - 1 \/ node_id < cfg.n \/ node_id > cfg.n + cfg.c * cfg.r - 1
       THEN /\ call' = [name |-> "set_f_gene", threw |-> TRUE]
            /\ UNCHANGED m_x
       ELSE /\ call' = [name |-> "set_f_gene", threw |-> FALSE]
            /\ m_x' = [m_x EXCEPT ![(node_id - cfg.n) * (cfg.arity + 1)] = f_id]
    /\ UNCHANGED <<cfg, m_lb, m_ub, m_active_nodes, m_active_genes, pc, current, left, retval>>
    /\ UNCHANGED others

SetFGeneAny ==
    \E node_id \in 0 .. cfg.n + cfg.c * cfg.r : \E f_id \in 0 .. cfg.nf : SetFGene(node_id, f_id)

-----------------------------------------------------------------------------
(* Evaluation: operator() *)

\* the kernel set of the tests: kernel_set<double>({"sum", "diff", "mul", "div"})
KernelNames == <<"sum", "diff", "mul", "div">>

\* A double is a one-element tuple holding its integer value; a double that
\* is not an integer (a fraction, an infinity, a NaN) is the empty tuple, and
\* what is computed from it is not tracked.
Num(v) == <<v>>

Other == <<>>

\* one binary step of a kernel
KernelStep(name, a, b) ==
    IF a = Other \/ b = Other THEN Other
    ELSE LET u == a[1]
             v == b[1]
             abs(w) == IF w < 0 THEN 0 - w ELSE w
             sign == IF (u < 0) = (v < 0) THEN 1 ELSE 0 - 1
         IN CASE name = "sum" -> Num(u + v)
              [] name = "diff" -> Num(u - v)
              [] name = "mul" -> Num(u * v)
              [] name = "div" ->
                   IF v # 0 /\ abs(u) % abs(v) = 0
                   THEN Num(sign * (abs(u) \div abs(v)))
                   ELSE Other

RECURSIVE KernelFold(_, _, _, _)
KernelFold(name, in, j, acc) ==
    IF j > Len(in) THEN acc ELSE KernelFold(name, in, j + 1, KernelStep(name, acc, in[j]))

\* m_f[f](function_in): the kernel folds its operation over its inputs
Kernel(f, in) == KernelFold(KernelNames[f + 1], in, 2, in[1])

RECURSIVE EvaluateNodes(_, _, _)
\* for (auto i : m_active_nodes): the node values after the nodes from position k on
EvaluateNodes(point, k, node) ==
    IF k > Len(m_active_nodes) THEN node
    ELSE LET i == m_active_nodes[k]
         IN IF i < cfg.n
            THEN EvaluateNodes(point, k + 1, [node EXCEPT ![i] = Num(point[i])])
            ELSE LET idx == (i - cfg.n) * (cfg.arity + 1)
                     function_in == [j \in 1 .. cfg.arity |-> node[m_x[idx + j]]]
                 IN EvaluateNodes(point, k + 1, [node EXCEPT ![i] = Kernel(m_x[idx], function_in)])

\* what operator()(point) returns for a point of size m_n
Evaluate(point) ==
    LET node == EvaluateNodes(point, 1, [i \in 0 .. cfg.n + cfg.r * cfg.c - 1 |-> Num(0)])
    IN [i \in 1 .. cfg.m |-> node[m_x[(cfg.r * cfg.c) * (cfg.arity + 1) + i - 1]]]

\* expression::operator()
Call(point) ==
    /\ pc = "idle"
    /\ IF Size0(point) # cfg.n
       THEN /\ call' = [name |-> "call", threw |-> TRUE]
            /\ UNCHANGED retval
       ELSE /\ call' = [name |-> "call", threw |-> FALSE]
            /\ retval' = Evaluate(point)
    /\ UNCHANGED <<cfg, m_lb, m_ub, m_x, m_active_nodes, m_active_genes, pc, current, left>>
    /\ UNCHANGED others

\* points handed to operator(): the two of the grammar check and one of the wrong size
CallPoints == {Vec(<<1, 1>>), Vec(<<1, 0>>), Vec(<<1, 1, 1>>)}

CallAny == \E point \in CallPoints : Call(point)

-----------------------------------------------------------------------------
(* Specifications *)

\* every public method that changes the chromosome
Next ==
    \/ UpdateIterate
    \/ UpdateFinish
    \/ LoopIterate
    \/ MutateAny
    \/ MutateIdxsAny
    \/ MutateRandomAny
    \/ MutateActive
    \/ MutateActiveFgene
    \/ MutateActiveCgene
    \/ MutateOgeneAny
    \/ SetAny
    \/ SetFGeneAny

Spec == Init /\ [][Next]_vars

\* the constructor followed by mutation operators only
NextMutate ==
    \/ UpdateIterate
    \/ UpdateFinish
    \/ LoopIterate
    \/ MutateAny
    \/ MutateIdxsAny
    \/ MutateRandomAny
    \/ MutateActive
    \/ MutateActiveFgene
    \/ MutateActiveCgene
    \/ MutateOgeneAny

SpecMutate == Init /\ [][NextMutate]_vars

\* the constructor followed by mutate_random only
NextRandom ==
    \/ UpdateIterate
    \/ UpdateFinish
    \/ MutateRandomAny

SpecRandom == InitRandom /\ [][NextRandom]_vars

\* the constructor alone
NextConstruct ==
    \/ UpdateIterate
    \/ UpdateFinish

SpecConstruct == InitGrid /\ [][NextConstruct]_vars

\* mutate(idx) and mutate_active(N) on a constructed expression.  Weak
\* fairness: a method that is running keeps running (the program does not
\* halt in the middle of a loop), and the uniform draws of the rejection
\* sampling eventually give a value other than the current one.
NextFair ==
    \/ UpdateIterate
    \/ UpdateFinish
    \/ LoopIterate
    \/ MutateAny
    \/ MutateActive

SpecFair == InitGrid /\ [][NextFair]_vars /\ WF_vars(NextFair)

\* set on a constructed expression, with the same fairness
NextSet ==
    \/ UpdateIterate
    \/ UpdateFinish
    \/ SetAny

SpecSet == Init /\ [][NextSet]_vars /\ WF_vars(NextSet)

\* the grammar check of the specification: the expression it builds
GrammarShape == [n |-> 2, m |-> 2, r |-> 2, c |-> 3, l |-> 2, arity |-> 2, nf |-> 4]

\* the chromosome of the grammar check
GrammarChromosome == Vec(<<0, 1, 1, 0, 0, 0, 2, 0, 2, 2, 0, 2, 4, 3>>)

InitGrammar == Constructed(GrammarShape)

SetGrammar == Set(GrammarChromosome)

NextGrammar ==
    \/ UpdateIterate
    \/ UpdateFinish
    \/ SetGrammar
    \/ CallAny

SpecGrammar == InitGrammar /\ [][NextGrammar]_vars

-----------------------------------------------------------------------------
(* symbolic_regression: the problem handed to the optimiser.  It owns one  *)
(* expression, a data set (points, labels) and a cache of its last          *)
(* evaluation.  A decision vector x = [c | g] is held as the record of its  *)
(* real prefix c (the ephemeral constants) and its integer suffix g (the    *)
(* chromosome).  The header of the class is not among the sources; the      *)
(* problem is modelled from its tests and from the design document.         *)

\* most samples in a data set
MaxSamples == 2

\* the members of the expression, but for the record of the last call
exprVars == <<cfg, m_lb, m_ub, m_x, m_active_nodes, m_active_genes, pc, current, left, retval>>

\* the expression of the problem is not looked into
NoExpression ==
    /\ cfg = <<>>
    /\ m_lb = <<>>
    /\ m_ub = <<>>
    /\ m_x = <<>>
    /\ m_active_nodes = <<>>
    /\ m_active_genes = <<>>
    /\ pc = "idle"
    /\ current = <<>>
    /\ left = 0
    /\ retval = <<>>

Abs(v) == IF v < 0 THEN 0 - v ELSE v

RECURSIVE Gcd(_, _)
Gcd(a, b) == IF b = 0 THEN a ELSE Gcd(b, a % b)

\* A fitness value is the fraction num / den in lowest terms, den > 0.
Frac(num, den) ==
    LET g == Gcd(Abs(num), den)
    IN IF num < 0 THEN <<0 - (Abs(num) \div g), den \div g>> ELSE <<num \div g, den \div g>>

FracAdd(a, b) == Frac(a[1] * b[2] + b[1] * a[2], a[2] * b[2])

FracOver(a, k) == Frac(a[1], a[2] * k)

\* the chromosomes of fitness_test
TestX == <<0, 1, 1, 0, 0, 0, 2, 0, 2, 2, 0, 2, 4, 3>>

TestXeph ==
    <<0, 0, 2, 1, 0, 1, 1, 2, 3, 0, 3, 1, 1, 6, 0, 0, 4, 1, 2, 1, 1, 1, 9, 5, 2, 3, 3, 0, 5, 0, 8, 11>>

\* what the expression with chromosome g and constants c returns at the point p:
\* "2xy, 2x" for test_x and "c1-c2-x, c1+2y" for test_xeph
Phenotype(g, c, p) ==
    IF g = TestX
    THEN <<2 * p[1] * p[2], 2 * p[1]>>
    ELSE <<c[1] - c[2] - p[1], c[1] + 2 * p[2]>>

\* the problems of fitness_test: the chromosome they are evaluated on, their
\* number of ephemeral constants, and the points and labels of their data sets
SrKinds ==
    { [g |-> TestX, ne |-> 0,
       points |-> {<<1, 1>>, <<1, 0>>},
       labels |-> {<<2, 2>>, <<0, 0>>},
       consts |-> {<<>>}],
      [g |-> TestXeph, ne |-> 2,
       points |-> {<<1, 0>>, <<0 - 1, 0 - 1>>},
       labels |-> {<<0, 3>>, <<0 - 2, 1>>, <<0, 0 - 1>>},
       consts |-> {<<1, 2>>, <<3, 3>>}] }

\* the assertions of fitness_test: BOOST_CHECK_EQUAL(udp.fitness(x)[0], expected)
FitnessTests ==
    { [g |-> TestX, c |-> <<>>, points |-> << <<1, 1>> >>, labels |-> << <<2, 2>> >>, expected |-> <<0, 1>>],
      [g |-> TestX, c |-> <<>>, points |-> << <<1, 1>> >>, labels |-> << <<0, 0>> >>, expected |-> <<4, 1>>],
      [g |-> TestX, c |-> <<>>, points |-> << <<1, 0>> >>, labels |-> << <<0, 0>> >>, expected |-> <<2, 1>>],
      [g |-> TestX, c |-> <<>>, points |-> << <<1, 1>>, <<1, 0>> >>, labels |-> << <<2, 2>>, <<0, 0>> >>,
       expected |-> <<1, 1>>],
      [g |-> TestXeph, c |-> <<1, 2>>, points |-> << <<1, 0>> >>, labels |-> << <<0, 3>> >>,
       expected |-> <<4, 1>>],
      [g |-> TestXeph, c |-> <<1, 2>>, points |-> << <<1, 0>> >>, labels |-> << <<0 - 2, 1>> >>,
       expected |-> <<0, 1>>],
      [g |-> TestXeph, c |-> <<1, 2>>, points |-> << <<0 - 1, 0 - 1>> >>, labels |-> << <<0, 0 - 1>> >>,
       expected |-> <<0, 1>>],
      [g |-> TestXeph, c |-> <<3, 3>>, points |-> << <<0 - 1, 0 - 1>> >>, labels |-> << <<0, 0 - 1>> >>,
       expected |-> <<5, 2>>] }

RECURSIVE SquaredError(_, _, _)
\* sum over the outputs from i on of (output - label)^2
SquaredError(out, lab, i) ==
    IF i > Len(out) THEN 0
    ELSE (out[i] - lab[i]) * (out[i] - lab[i]) + SquaredError(out, lab, i + 1)

\* the loss of one sample with the squared errors of its outputs added up
SampleLossSummed(out, lab) == Frac(SquaredError(out, lab, 1), 1)

\* the loss of one sample: the squared error averaged over its outputs
SampleLoss(out, lab) == Frac(SquaredError(out, lab, 1), Len(out))

RECURSIVE SumLoss(_, _, _)
\* the losses of the samples from i on, added to acc
SumLoss(x, i, acc) ==
    IF i > Len(sr.points) THEN acc
    ELSE SumLoss(x, i + 1, FracAdd(acc, SampleLoss(Phenotype(x.g, x.c, sr.points[i]), sr.labels[i])))

\* fitness(x)[0] evaluated afresh: the loss averaged over the samples
FreshFitness(x) == FracOver(SumLoss(x, 1, <<0, 1>>), Len(sr.points))

\* a cache that answers whenever the integer suffix is the cached one
CacheHitOnKey(x) == sr.cache.valid /\ sr.cache.key = x.g

\* the cache answers for the same integer suffix and an identical real prefix
CacheHit(x) == sr.cache.valid /\ sr.cache.key = x.g /\ sr.cache.prefix = x.c

\* what the cache holds once x has been evaluated afresh
Cached(x) == [valid |-> TRUE, key |-> x.g, prefix |-> x.c, f |-> FreshFitness(x)]

\* symbolic_regression::fitness
Fitness(x) ==
    /\ pc = "idle"
    /\ call' = [name |-> "fitness", threw |-> FALSE]
    /\ IF CacheHit(x)
       THEN sr' = [sr EXCEPT !.x = x, !.ret = sr.cache.f, !.from = "cache"]
       ELSE sr' = [sr EXCEPT !.x = x, !.ret = Cached(x).f, !.from = "fresh", !.cache = Cached(x)]
    /\ UNCHANGED <<exprVars, m_weights, m_biases, grad, epoch, pop>>

\* symbolic_regression::gradient: its value is not tracked, its use of the cache is
Gradient(x) ==
    /\ pc = "idle"
    /\ call' = [name |-> "gradient", threw |-> FALSE]
    /\ IF CacheHit(x)
       THEN sr' = [sr EXCEPT !.x = x, !.from = "cache"]
       ELSE sr' = [sr EXCEPT !.x = x, !.from = "fresh", !.cache = Cached(x)]
    /\ UNCHANGED <<exprVars, m_weights, m_biases, grad, epoch, pop>>

\* the decision vectors handed to the problem
SrInputs == {[c |-> c, g |-> sr.g] : c \in sr.consts}

FitnessAny == \E x \in SrInputs : Fitness(x)

GradientAny == \E x \in SrInputs : Gradient(x)

\* a problem of fitness_test, built on a data set of up to MaxSamples samples
InitProblem ==
    /\ NoExpression
    /\ call = [name |-> "symbolic_regression", threw |-> FALSE]
    /\ m_weights = <<>>
    /\ m_biases = <<>>
    /\ grad = <<>>
    /\ epoch = <<>>
    /\ pop = <<>>
    /\ \E k \in SrKinds : \E N \in 1 .. MaxSamples :
         \E points \in [1 .. N -> k.points] : \E labels \in [1 .. N -> k.labels] :
            sr = [g |-> k.g, ne |-> k.ne, consts |-> k.consts, points |-> points, labels |-> labels,
                  cache |-> [valid |-> FALSE, key |-> <<>>, prefix |-> <<>>, f |-> <<0, 1>>],
                  x |-> [c |-> <<>>, g |-> <<>>], ret |-> <<0, 1>>, from |-> "none"]

NextProblem ==
    \/ FitnessAny
    \/ GradientAny

SpecProblem == InitProblem /\ [][NextProblem]_vars

-----------------------------------------------------------------------------
(* symbolic_regression: construction.  The constructor looks at the sizes   *)
(* of the data set only, so points and labels are held as the vector of the *)
(* lengths of their rows; the kernel set is held as its size nf.            *)

\* most rows in the points and in the labels handed to the constructor
MaxRows == 3

\* the sanity checks of expression::expression on its arguments
ExpressionThrows(s) ==
    \/ s.n = 0
    \/ s.m = 0
    \/ s.c = 0
    \/ s.r = 0
    \/ s.l = 0
    \/ s.arity < 1
    \/ s.nf = 0

\* the rows of a data set have unequal lengths
Ragged(rows) == \E i, j \in 1 .. Len(rows) : rows[i] # rows[j]

\* the checks of the problem on its data set
DataSetThrows(a) ==
    \/ Len(a.points) = 0
    \/ Len(a.points) # Len(a.labels)
    \/ Ragged(a.points)
    \/ Ragged(a.labels)

\* symbolic_regression(points, labels, r, c, l, arity, f, n_eph) throws: the
\* data set is checked, then the expression is built with as many inputs as a
\* point has entries (plus the constants) and as many outputs as a label has
ProblemThrows(a) ==
    \/ DataSetThrows(a)
    \/ ExpressionThrows([n |-> a.points[1] + a.ne, m |-> a.labels[1], r |-> a.r, c |-> a.c,
                         l |-> a.l, arity |-> a.arity, nf |-> a.nf])

\* the arguments of the default constructor: one point, one label, a 1 x 1 grid
DefaultArguments ==
    [points |-> <<1>>, labels |-> <<1>>, r |-> 1, c |-> 1, l |-> 1, arity |-> 2, nf |-> 4, ne |-> 0]

\* the arguments construction_test hands to the constructor, and their neighbours
ConstructorArguments ==
    {DefaultArguments} \cup
    [points : TuplesUpTo({2, 3}, MaxRows), labels : TuplesUpTo({1, 2}, MaxRows),
     r : {0, 1}, c : {0, 1}, l : {0, 1}, arity : {0, 1, 2}, nf : {0, 1}, ne : {0}]

\* symbolic_regression::symbolic_regression on the arguments drawn
ConstructProblem ==
    /\ pc = "idle"
    /\ call.name = "none"
    /\ call' = [name |-> "symbolic_regression", threw |-> ProblemThrows(sr)]
    /\ UNCHANGED <<exprVars, others>>

InitArguments ==
    /\ NoExpression
    /\ call = [name |-> "none", threw |-> FALSE]
    /\ m_weights = <<>>
    /\ m_biases = <<>>
    /\ grad = <<>>
    /\ epoch = <<>>
    /\ pop = <<>>
    /\ sr \in ConstructorArguments

NextArguments == ConstructProblem

SpecArguments == InitArguments /\ [][NextArguments]_vars

-----------------------------------------------------------------------------
(* expression_ann: the expression with a weight on every connection and a   *)
(* bias on every internal node.  Its constructor runs the constructor of    *)
(* the expression, fills m_weights with 1 and m_biases with 0 and calls      *)
(* update_data_structures once more; the second call computes what the      *)
(* first has computed, so the model runs the do-while once.  Weights,       *)
(* biases, inputs and labels are integers, and the one kernel is ReLu,      *)
(* which maps integers to integers.                                         *)

\* grids of the networks
AnnShapes ==
    { [n |-> 1, m |-> 2, r |-> 1, c |-> 2, l |-> 3, arity |-> 1, nf |-> 1],
      [n |-> 1, m |-> 2, r |-> 1, c |-> 2, l |-> 2, arity |-> 2, nf |-> 1] }

\* the values handed to the setters of weights and biases
WeightValues == {2, 3}

\* get_gene_idx()[node_id]: where the genes of the internal node node_id start
GeneIdx(node_id) == (node_id - cfg.n) * (cfg.arity + 1)

\* the weights of every node starting at the front of m_weights
WeightIdxFront(node_id) == 0

\* where the weights of the internal node node_id start in m_weights
WeightIdx(node_id) == GeneIdx(node_id) - (node_id - cfg.n)

\* no sgd call has been made
NoEpoch ==
    [K |-> 0, batch_size |-> 0, l_rate |-> 0, dfirst |-> 0, lfirst |-> 0, d |-> 0, dlast |-> 0, l |-> 0,
     coeff |-> 0, batch |-> 0, log |-> <<>>, start |-> <<>>, x0 |-> <<>>, count |-> 0]

ConstructedAnn(s) ==
    /\ ExpressionConstructed(s)
    /\ m_weights = [i \in 0 .. s.r * (s.c * s.arity) - 1 |-> 1]
    /\ m_biases = [i \in 0 .. s.r * s.c - 1 |-> 0]
    /\ grad = <<>>
    /\ epoch = NoEpoch
    /\ sr = <<>>
    /\ pop = <<>>

InitAnn == \E s \in AnnShapes : ConstructedAnn(s)

\* what a setter of weights or biases leaves alone
AnnFrame == UNCHANGED <<cfg, m_lb, m_ub, m_x, m_active_nodes, m_active_genes, pc, current, left, grad, epoch, sr, pop>>

\* expression_ann::set_weight(node_id, input_id, w)
SetWeight(node_id, input_id, w) ==
    /\ pc = "idle"
    /\ IF node_id < cfg.n \/ node_id >= cfg.n + cfg.r * cfg.c \/ input_id >= cfg.arity
       THEN /\ call' = [name |-> "set_weight", threw |-> TRUE]
            /\ UNCHANGED m_weights
       ELSE /\ call' = [name |-> "set_weight", threw |-> FALSE]
            /\ m_weights' = [m_weights EXCEPT ![WeightIdx(node_id)] = w]
    /\ UNCHANGED <<m_biases, retval>>
    /\ AnnFrame

\* expression_ann::get_weight(node_id, input_id)
GetWeight(node_id, input_id) ==
    /\ pc = "idle"
    /\ IF node_id < cfg.n \/ node_id >= cfg.n + cfg.r * cfg.c \/ input_id >= cfg.arity
       THEN /\ call' = [name |-> "get_weight", threw |-> TRUE]
            /\ UNCHANGED retval
       ELSE /\ call' = [name |-> "get_weight", threw |-> FALSE]
            /\ retval' = <<m_weights[WeightIdx(node_id)]>>
    /\ UNCHANGED <<m_weights, m_biases>>
    /\ AnnFrame

\* operator[] beyond the end of a vector is undefined: the write can go
\* unnoticed, can land in the vector allocated next to it, or can end the
\* process; an exception is not among the outcomes
OutOfRangeWrite(name, neighbour, w) ==
    /\ call' = [name |-> name, threw |-> FALSE]
    /\ \/ UNCHANGED <<m_weights, m_biases, pc>>
       \/ /\ \E i \in DOMAIN neighbour :
               IF name = "set_weight_idx"
               THEN m_biases' = [m_biases EXCEPT ![i] = w] /\ UNCHANGED m_weights
               ELSE m_weights' = [m_weights EXCEPT ![i] = w] /\ UNCHANGED m_biases
          /\ UNCHANGED pc
       \/ /\ pc' = "aborted"
          /\ UNCHANGED <<m_weights, m_biases>>
    /\ UNCHANGED <<cfg, m_lb, m_ub, m_x, m_active_nodes, m_active_genes, current, left, retval, grad, epoch, sr, pop>>

\* expression_ann::set_weight(idx, w)
SetWeightAt(idx, w) ==
    /\ pc = "idle"
    /\ IF idx < Size0(m_weights)
       THEN /\ call' = [name |-> "set_weight_idx", threw |-> FALSE]
            /\ m_weights' = [m_weights EXCEPT ![idx] = w]
            /\ UNCHANGED <<m_biases, retval>>
            /\ AnnFrame
       ELSE OutOfRangeWrite("set_weight_idx", m_biases, w)

\* expression_ann::set_bias(idx, w)
SetBiasAt(idx, w) ==
    /\ pc = "idle"
    /\ IF idx < Size0(m_biases)
       THEN /\ call' = [name |-> "set_bias", threw |-> FALSE]
            /\ m_biases' = [m_biases EXCEPT ![idx] = w]
            /\ UNCHANGED <<m_weights, retval>>
            /\ AnnFrame
       ELSE OutOfRangeWrite("set_bias", m_weights, w)

\* expression_ann::set_weights
SetWeights(ws) ==
    /\ pc = "idle"
    /\ IF Size0(ws) # Size0(m_weights)
       THEN /\ call' = [name |-> "set_weights", threw |-> TRUE]
            /\ UNCHANGED m_weights
       ELSE /\ call' = [name |-> "set_weights", threw |-> FALSE]
            /\ m_weights' = ws
    /\ UNCHANGED <<m_biases, retval>>
    /\ AnnFrame

\* expression_ann::set_biases
SetBiases(bs) ==
    /\ pc = "idle"
    /\ IF Size0(bs) # Size0(m_biases)
       THEN /\ call' = [name |-> "set_biases", threw |-> TRUE]
            /\ UNCHANGED m_biases
       ELSE /\ call' = [name |-> "set_biases", threw |-> FALSE]
            /\ m_biases' = bs
    /\ UNCHANGED <<m_weights, retval>>
    /\ AnnFrame

\* node and input ids handed to set_weight / get_weight: the valid ones and their neighbours
NodeIds == 0 .. cfg.n + cfg.r * cfg.c

InputIds == 0 .. cfg.arity

\* vectors handed to set_weights / set_biases in place of v: one entry short,
\* of the right length, one entry long
VectorsFor(v) == {[i \in 0 .. k - 1 |-> w] : k \in Size0(v) - 1 .. Size0(v) + 1, w \in WeightValues}

SetWeightAny == \E node_id \in NodeIds, input_id \in InputIds, w \in WeightValues : SetWeight(node_id, input_id, w)

GetWeightAny == \E node_id \in NodeIds, input_id \in InputIds : GetWeight(node_id, input_id)

SetWeightAtAny == \E idx \in 0 .. Size0(m_weights), w \in WeightValues : SetWeightAt(idx, w)

SetBiasAtAny == \E idx \in 0 .. Size0(m_biases), w \in WeightValues : SetBiasAt(idx, w)

SetWeightsAny == \E ws \in VectorsFor(m_weights) : SetWeights(ws)

SetBiasesAny == \E bs \in VectorsFor(m_biases) : SetBiases(bs)

NextWeights ==
    \/ UpdateIterate
    \/ UpdateFinish
    \/ SetWeightAny
    \/ GetWeightAny
    \/ SetWeightAtAny
    \/ SetBiasAtAny
    \/ SetWeightsAny
    \/ SetBiasesAny

SpecWeights == InitAnn /\ [][NextWeights]_vars

-----------------------------------------------------------------------------
(* expression_ann: d_loss on one sample *)

\* the kernel ReLu on the weighted inputs (the bias already added to the first)
ReLu(z) == IF z > 0 THEN z ELSE 0

RECURSIVE WeightedSum(_, _, _)
\* kernel_call: the inputs of the node times their weights, from input j on
WeightedSum(node, id, j) ==
    IF j >= cfg.arity THEN 0
    ELSE node[m_x[GeneIdx(id) + j + 1]] * m_weights[WeightIdx(id) + j] + WeightedSum(node, id, j + 1)

RECURSIVE FillNodes(_, _, _)
\* fill_nodes(in, node, d_node): the outputs of the active nodes from position
\* k on and the derivatives of their activation functions
FillNodes(in, k, nd) ==
    IF k > Len(m_active_nodes) THEN nd
    ELSE LET id == m_active_nodes[k]
         IN IF id < cfg.n
            THEN FillNodes(in, k + 1, [node |-> [nd.node EXCEPT ![id] = in[id]],
                                       d_node |-> [nd.d_node EXCEPT ![id] = 0]])
            ELSE LET out == ReLu(WeightedSum(nd.node, id, 0) + m_biases[id - cfg.n])
                 IN FillNodes(in, k + 1, [node |-> [nd.node EXCEPT ![id] = out],
                                          d_node |-> [nd.d_node EXCEPT ![id] = IF out > 0 THEN 1 ELSE 0]])

\* the node an output gene selects
OutputNode(i) == m_x[Size0(m_x) - cfg.m + i]

\* the derivative of the cross entropy with respect to an output, p_i minus
\* the label, is not an integer; it is held as its sign
CeSeeds == {0 - 1, 0, 1}

\* what d_loss appends to d_node: the derivatives of the loss with respect to the outputs
Seeds(node, prediction, loss_e) ==
    IF loss_e = "MSE"
    THEN {[i \in 0 .. cfg.m - 1 |-> 2 * (node[OutputNode(i)] - prediction[i])]}
    ELSE [0 .. cfg.m - 1 -> CeSeeds]

\* m_connected[id] as update_data_structures fills it: for every connection
\* gene of an active internal node that selects id, the consuming node and the
\* index of the weight; for every output gene that selects id, the virtual
\* output node
Connected(id) ==
    LET genes == {q \in {a \in Range(m_active_nodes) : a >= cfg.n} \X (0 .. cfg.arity - 1) :
                     /\ m_x[GeneIdx(q[1]) + 1 + q[2]] = id
                     /\ id \in Range(m_active_nodes)}
        outputs == {i \in 0 .. cfg.m - 1 : OutputNode(i) = id}
    IN {<<q[1], WeightIdx(q[1]) + q[2]>> : q \in genes}
           \cup {<<cfg.n + cfg.r * cfg.c + i, 0>> : i \in outputs}

RECURSIVE Cum(_, _, _)
\* the loop over m_connected[id]: a consuming node contributes its weight
\* times its d_node, a virtual output node the seed of its output
Cum(todo, d_node, seeds) ==
    IF todo = {} THEN 0
    ELSE LET p == CHOOSE q \in todo : TRUE
             term == IF p[1] < cfg.n + cfg.r * cfg.c
                     THEN m_weights[p[2]] * d_node[p[1]]
                     ELSE seeds[p[1] - (cfg.n + cfg.r * cfg.c)]
         IN term + Cum(todo \ {p}, d_node, seeds)

RECURSIVE Backward(_, _, _, _)
\* the backward pass over the active nodes from position k down; st.written
\* records the internal nodes whose gradient entries have been assigned
Backward(k, node, seeds, st) ==
    IF k = 0 THEN st
    ELSE LET id == m_active_nodes[k]
         IN IF id < cfg.n THEN Backward(k - 1, node, seeds, st)
            ELSE LET b_idx == id - cfg.n
                     c_idx == GeneIdx(id)
                     w_idx == WeightIdx(id)
                     d == st.d_node[id] * Cum(Connected(id), st.d_node, seeds)
                 IN Backward(k - 1, node, seeds,
                        [d_node |-> [st.d_node EXCEPT ![id] = d],
                         gweights |-> [j \in DOMAIN st.gweights |->
                                          IF j \in w_idx .. w_idx + cfg.arity - 1
                                          THEN d * node[m_x[c_idx + 1 + (j - w_idx)]]
                                          ELSE st.gweights[j]],
                         gbiases |-> [j \in DOMAIN st.gbiases |-> IF j = b_idx THEN d ELSE st.gbiases[j]],
                         written |-> st.written \cup {id}])

\* what d_loss(point, prediction, loss_e) can return: the gradients with
\* respect to the weights and to the biases
DLoss(point, prediction, loss_e) ==
    LET n_nodes == cfg.n + cfg.r * cfg.c
        nd == FillNodes(point, 1, [node |-> [i \in 0 .. n_nodes - 1 |-> 0],
                                   d_node |-> [i \in 0 .. n_nodes - 1 |-> 0]])
    IN {Backward(Len(m_active_nodes), nd.node, seeds,
                 [d_node |-> nd.d_node,
                  gweights |-> [i \in DOMAIN m_weights |-> 0],
                  gbiases |-> [i \in DOMAIN m_biases |-> 0],
                  written |-> {}]) : seeds \in Seeds(nd.node, prediction, loss_e)}

\* expression_ann::d_loss(point, prediction, loss_e)
DLossCall(point, prediction, loss_e) ==
    /\ pc = "idle"
    /\ IF Size0(point) # cfg.n \/ Size0(prediction) # cfg.m
       THEN /\ call' = [name |-> "d_loss", threw |-> TRUE]
            /\ UNCHANGED grad
       ELSE /\ call' = [name |-> "d_loss", threw |-> FALSE]
            /\ \E g \in DLoss(point, prediction, loss_e) :
                 grad' = [gweights |-> g.gweights, gbiases |-> g.gbiases, written |-> g.written]
    /\ UNCHANGED <<cfg, m_lb, m_ub, m_x, m_active_nodes, m_active_genes, pc, current, left, retval,
                   m_weights, m_biases, epoch, sr, pop>>

\* the samples handed to d_loss: a point and its label, and a point of the wrong size
Samples ==
    {[point |-> Vec(p), prediction |-> Vec(q)] : p \in {<<1>>, <<2>>, <<1, 1>>}, q \in {<<0, 1>>, <<3, 2>>}}

DLossAny == \E s \in Samples, loss_e \in {"MSE", "CE"} : DLossCall(s.point, s.prediction, loss_e)

NextGradient ==
    \/ UpdateIterate
    \/ UpdateFinish
    \/ SetWeightsAny
    \/ SetBiasesAny
    \/ DLossAny

SpecGradient == InitAnn /\ [][NextGradient]_vars

-----------------------------------------------------------------------------
(* expression_ann: sgd.  One step of the model is one pass of the loop of   *)
(* sgd up to its call of update_weights (pc = "sgd"), one pass of the loop  *)
(* of update_weights (pc = "update_weights"), or a return.  epoch holds the *)
(* iterators of both loops as indices into the data set, and for the       *)
(* properties the samples processed so far (log), the weights and biases   *)
(* held when the running batch started (start) and the chromosome held     *)
(* when sgd was called (x0).                                               *)

\* most samples in the data set handed to sgd
MaxEpochSamples == 3

\* most calls of sgd on one network
MaxEpochs == 1

\* the batch sizes handed to sgd
BatchSizes == {1, 2, 3}

\* the learning rates handed to sgd: one that sgd rejects, and a multiple of
\* every batch length, so that the weights stay integers
LearningRates == {0, 6}

\* the data set: sample i has the point and the label of index i
DataPoint(i) == Vec(<<1 + (i % 2)>>)

DataLabel(i) == Vec(<<i, 1>>)

\* the value that stands for a double that is not finite
NonFinite == 9

\* lr / static_cast<U>(dlast - dfirst): a division of doubles, infinite for an
\* empty batch
Coeff(lr, len) == IF len = 0 THEN NonFinite ELSE lr \div len

\* sgd leaving the iterator over the labels where it is
AdvanceLabelsNot(lfirst, batch_size) == lfirst

\* lfirst += batch_size
AdvanceLabels(lfirst, batch_size) == lfirst + batch_size

\* the batch sgd hands to update_weights: the samples dfirst .. dlast - 1
BatchEnd == IF epoch.dfirst + epoch.batch_size > epoch.K THEN epoch.K ELSE epoch.dfirst + epoch.batch_size

SgdFrame == UNCHANGED <<cfg, m_lb, m_ub, m_x, m_active_nodes, m_active_genes, current, left, retval, grad, sr, pop>>

\* expression_ann::sgd on K points and n_labels labels, up to its loop
Sgd(K, n_labels, l_rate, batch_size, loss_s) ==
    /\ pc = "idle"
    /\ epoch.count < MaxEpochs
    /\ IF K # n_labels \/ K = 0 \/ l_rate <= 0 \/ loss_s \notin {"MSE", "CE"}
       THEN /\ call' = [name |-> "sgd", threw |-> TRUE]
            /\ UNCHANGED <<pc, epoch>>
       ELSE /\ call' = [name |-> "sgd", threw |-> FALSE]
            /\ pc' = "sgd"
            /\ epoch' = [NoEpoch EXCEPT !.K = K, !.batch_size = batch_size, !.l_rate = l_rate,
                                        !.x0 = m_x, !.count = epoch.count + 1]
    /\ UNCHANGED <<m_weights, m_biases>>
    /\ SgdFrame

\* a pass of while (dfirst != dlast) in sgd: the call of update_weights
SgdBatch ==
    /\ pc = "sgd"
    /\ epoch.dfirst # epoch.K
    /\ pc' = "update_weights"
    /\ epoch' = [epoch EXCEPT !.d = epoch.dfirst, !.dlast = BatchEnd, !.l = epoch.lfirst,
                              !.coeff = Coeff(epoch.l_rate, BatchEnd - epoch.dfirst),
                              !.batch = IF epoch.batch < epoch.K THEN epoch.batch + 1 ELSE epoch.batch,
                              !.start = <<m_weights, m_biases>>]
    /\ UNCHANGED <<call, m_weights, m_biases>>
    /\ SgdFrame

\* a pass of while (dfirst != dlast) in update_weights: d_loss on the next
\* sample and its label, then the update of the weights and biases
UpdateWeightsStep ==
    /\ pc = "update_weights"
    /\ epoch.d # epoch.dlast
    /\ LET mse_out == CHOOSE g \in DLoss(DataPoint(epoch.d), DataLabel(epoch.l), "MSE") : TRUE
       IN /\ m_weights' = [i \in DOMAIN m_weights |-> m_weights[i] - epoch.coeff * mse_out.gweights[i]]
          /\ m_biases' = [i \in DOMAIN m_biases |-> m_biases[i] - epoch.coeff * mse_out.gbiases[i]]
    /\ epoch' = [epoch EXCEPT !.d = epoch.d + 1, !.l = epoch.l + 1,
                              !.log = Append(epoch.log, [sample |-> epoch.d, label |-> epoch.l,
                                                         batch |-> epoch.batch])]
    /\ UNCHANGED <<call, pc>>
    /\ SgdFrame

\* the return of update_weights into sgd, which moves on to the next batch
UpdateWeightsReturn ==
    /\ pc = "update_weights"
    /\ epoch.d = epoch.dlast
    /\ pc' = "sgd"
    /\ IF epoch.dfirst + epoch.batch_size > epoch.K
       THEN epoch' = [epoch EXCEPT !.dfirst = epoch.K]
       ELSE epoch' = [epoch EXCEPT !.dfirst = epoch.dfirst + epoch.batch_size,
                                   !.lfirst = AdvanceLabels(epoch.lfirst, epoch.batch_size)]
    /\ UNCHANGED <<call, m_weights, m_biases>>
    /\ SgdFrame

\* the return of sgd
SgdReturn ==
    /\ pc = "sgd"
    /\ epoch.dfirst = epoch.K
    /\ pc' = "idle"
    /\ UNCHANGED <<call, epoch, m_weights, m_biases>>
    /\ SgdFrame

SgdAny ==
    \E K \in 0 .. MaxEpochSamples, extra \in {0, 1}, l_rate \in LearningRates, batch_size \in BatchSizes,
       loss_s \in {"MSE", "L1"} :
        Sgd(K, K + extra, l_rate, batch_size, loss_s)

NextSgd ==
    \/ UpdateIterate
    \/ UpdateFinish
    \/ SgdAny
    \/ SgdBatch
    \/ UpdateWeightsStep
    \/ UpdateWeightsReturn
    \/ SgdReturn

SpecSgd == InitAnn /\ [][NextSgd]_vars

\* sgd with batch_size = 0 on a data set sgd accepts
SgdZeroAny == \E K \in 1 .. MaxEpochSamples : Sgd(K, K, 6, 0, "MSE")

\* sgd with every batch size.  Weak fairness: a call that is running keeps
\* running, the program does not halt in the middle of a loop.
NextSgdFair ==
    \/ UpdateIterate
    \/ UpdateFinish
    \/ SgdAny
    \/ SgdZeroAny
    \/ SgdBatch
    \/ UpdateWeightsStep
    \/ UpdateWeightsReturn
    \/ SgdReturn

SpecSgdFair == InitAnn /\ [][NextSgdFair]_vars /\ WF_vars(NextSgdFair)

-----------------------------------------------------------------------------
(* expression_ann::set_output_f *)

\* the loop of set_output_f from its i-th round on: set_f_gene on the node
\* the i-th output gene from the end selects; a throw of set_f_gene ends the
\* loop and keeps what the earlier rounds wrote
RECURSIVE OutputFLoop(_, _, _)
OutputFLoop(i, f_id, x) ==
    IF i >= cfg.m
    THEN [x |-> x, threw |-> FALSE]
    ELSE LET node_id == x[Size0(x) - 1 - i]
         IN IF f_id > cfg.nf - 1 \/ node_id < cfg.n \/ node_id > cfg.n + cfg.c * cfg.r - 1
            THEN [x |-> x, threw |-> TRUE]
            ELSE OutputFLoop(i + 1, f_id, [x EXCEPT ![(node_id - cfg.n) * (cfg.arity + 1)] = f_id])

\* expression_ann::set_output_f
SetOutputF(f_id) ==
    /\ pc = "idle"
    /\ LET done == OutputFLoop(0, f_id, m_x)
       IN /\ call' = [name |-> "set_output_f", threw |-> done.threw]
          /\ m_x' = done.x
    /\ UNCHANGED <<cfg, m_lb, m_ub, m_active_nodes, m_active_genes, pc, current, left, retval>>
    /\ UNCHANGED others

SetOutputFAny == \E f_id \in 0 .. cfg.nf : SetOutputF(f_id)

\* a network with two kernels
InitOutputF == \E s \in Shapes : ConstructedAnn(s)

NextOutputF ==
    \/ UpdateIterate
    \/ UpdateFinish
    \/ SetOutputFAny
    \/ SetFGeneAny

SpecOutputF == InitOutputF /\ [][NextOutputF]_vars

-----------------------------------------------------------------------------
(* momes4cgp::evolve.  A decision vector is <<c, g>>: its continuous part   *)
(* (one constant) and its integer part (the graph).  One step of the model  *)
(* is the preamble of evolve, one pass of the loop that mutates the graphs, *)
(* one pass of the loop that refines, scores and inserts a candidate, or    *)
(* the selection that ends a generation.                                    *)

\* largest population handed to evolve
MaxNP == 2
\* largest number of generations m_gen
MaxGen == 2
\* largest m_max_mut
MaxMut == 2
\* largest m_gen and largest m_verbosity of the runs that keep a log
MaxLogGen == 4
MaxVerbosity == 3

\* The decision vectors of the model and their fitness (loss, complexity).
\* The complexity is a property of the graph.  <<0,1>>, <<0,2>> and <<0,3>>
\* are mutually non-dominated, <<1,1>> is dominated by two of them, <<1,2>>
\* has the fitness of <<0,2>>, and the loss of <<1,3>> is not finite.
Constants == 0 .. 1

Graphs == 1 .. 3

Individuals == Constants \X Graphs

ProblemFitness(x) ==
    LET loss == CASE x = <<0, 1>> -> 0
                  [] x = <<0, 2>> -> 1
                  [] x = <<0, 3>> -> 2
                  [] x = <<1, 1>> -> 1
                  [] x = <<1, 2>> -> 1
                  [] OTHER -> NonFinite
    IN <<loss, 3 - x[2]>>

Individual(x) == [x |-> x, f |-> ProblemFitness(x)]

IsFinite(v) == v # NonFinite

\* pagmo's Pareto dominance for minimisation: a is nowhere worse than b and
\* differs from it
Dominates(a, b) == a[1] <= b[1] /\ a[2] <= b[2] /\ a # b

\* the indices of I whose fitness no fitness of I dominates
NonDominatedFront(fs, I) == {i \in I : \A j \in I : ~Dominates(fs[j], fs[i])}

\* The indices of a front to which pagmo::crowding_distance gives an infinite
\* distance: for each objective the first and the last index of the front
\* sorted by that objective.  Which of several indices of equal value the
\* sort puts first or last is open.
Extremes(fs, front) ==
    LET least(o) == {i \in front : \A j \in front : fs[i][o] <= fs[j][o]}
        most(o) == {i \in front : \A j \in front : fs[i][o] >= fs[j][o]}
    IN {{a1, b1, a2, b2} : a1 \in least(1), b1 \in most(1), a2 \in least(2), b2 \in most(2)}

\* The k indices taken out of a front that does not fit: those of largest
\* crowding distance.  The indices of infinite distance come first, in an
\* order the sort leaves open; the finite distances are not modelled, any of
\* the other indices may follow.
Crowded(fs, front, k) ==
    {T \in SUBSET front :
        /\ Cardinality(T) = k
        /\ \E E \in Extremes(fs, front) : IF k >= Cardinality(E) THEN E \subseteq T ELSE T \subseteq E}

\* select_best_N_mo from the fronts still to place: whole fronts in the order
\* of the non-dominated sorting while they fit, then the rest out of the
\* first front that does not fit
RECURSIVE FillFronts(_, _, _, _)
FillFronts(fs, I, N, acc) ==
    IF Len(acc) = N
    THEN {acc}
    ELSE LET front == NonDominatedFront(fs, I)
         IN IF Len(acc) + Cardinality(front) <= N
            THEN FillFronts(fs, I \ front, N, acc \o SortedSeq(front))
            ELSE {acc \o SortedSeq(T) : T \in Crowded(fs, front, N - Len(acc))}

\* pagmo::select_best_N_mo(fs, N): the index vectors it may return
SelectBestNMo(fs, N) ==
    IF N >= Len(fs)
    THEN {[i \in 1 .. Len(fs) |-> i]}
    ELSE FillFronts(fs, 1 .. Len(fs), N, <<>>)

\* the diversity mechanism without the comparison with the pool
AcceptsFinite(fs, f) == IsFinite(f[1])

\* the diversity mechanism without the test of the loss
AcceptsNew(fs, f) == f \notin Range(fs)

\* the diversity mechanism: a candidate enters the pool when its fitness is
\* not in the pool yet and its loss is finite
Accepts(fs, f) == f \notin Range(fs) /\ IsFinite(f[1])

FitnessVectors(p) == [i \in 1 .. Len(p) |-> p[i].f]

\* pagmo::ideal(pop.get_f())[0]: the least loss of a population
BestLoss(p) == CHOOSE v \in {p[i].f[1] : i \in 1 .. Len(p)} : \A i \in 1 .. Len(p) : v <= p[i].f[1]

\* el % (m_max_mut + 1)
StrengthUpTo(el, max_mut) == el % (max_mut + 1)

\* el % m_max_mut
Strength(el, max_mut) == el % max_mut

\* n_active_mutations after iota, transform and shuffle: the orders the
\* shuffle can leave the strengths in
Shuffles(NP, max_mut) ==
    {[i \in 1 .. NP |-> Strength(q[i] - 1, max_mut)] :
        q \in {f \in [1 .. NP -> 1 .. NP] : \A i, j \in 1 .. NP : f[i] = f[j] => i = j}}

\* the graphs cgp.set(g), cgp.mutate_active(k), cgp.get() can give
MutateActiveGraph(g, k) == IF k = 0 THEN {g} ELSE Graphs

\* a line is logged at every generation that is not a multiple of m_verbosity
LogsLineOffMultiples(gen, verbosity) == gen % verbosity # 0

\* gen % m_verbosity == 1u || m_verbosity == 1u
LogsLine(gen, verbosity) == gen % verbosity = 1 \/ verbosity = 1

\* log_single_line(gen, fevals, pop)
LogSingleLine(p, gen) == Append(p.log, [gen |-> gen, fevals |-> p.fevals, best |-> BestLoss(p.pop)])

\* the entry taken from the end of the pool
ReinsertedLast(popnew, best_idx, i) == popnew[Len(popnew) + 1 - i]

\* popnew.get_x()[best_idx[i]], popnew.get_f()[best_idx[i]]
Reinserted(popnew, best_idx, i) == popnew[best_idx[i]]

\* the head of the main loop for generation gen: the log line, the copy of
\* the population, the mutation strengths
Generations(p, gen) ==
    LET logged == IF p.verbosity > 0 /\ LogsLine(gen, p.verbosity) THEN LogSingleLine(p, gen - 1) ELSE p.log
    IN {[p EXCEPT !.gen = gen, !.log = logged, !.popnew = p.pop, !.parents = p.pop, !.mutated_x = <<>>,
                  !.n_active_mutations = s, !.i = 0] : s \in Shuffles(Len(p.pop), p.max_mut)}

\* a population handed to evolve: 1 .. MaxNP individuals of finite loss
Populations ==
    UNION {[1 .. np -> {Individual(x) : x \in {y \in Individuals : IsFinite(ProblemFitness(y)[1])}}] :
              np \in 1 .. MaxNP}

NoRun ==
    [popnew |-> <<>>, parents |-> <<>>, mutated_x |-> <<>>, n_active_mutations |-> <<>>, i |-> 0, gen |-> 0,
     m_gen |-> 0, max_mut |-> 1, verbosity |-> 0, log |-> <<>>, fevals |-> 0]

InitPopulation ==
    /\ NoExpression
    /\ call = [name |-> "momes4cgp", threw |-> FALSE]
    /\ m_weights = <<>> /\ m_biases = <<>> /\ grad = <<>> /\ epoch = <<>> /\ sr = <<>>
    /\ \E p \in Populations : pop = [pop |-> p] @@ NoRun

\* a population of two individuals of the largest loss
InitLog ==
    /\ InitPopulation
    /\ pop.pop = <<Individual(<<0, 3>>), Individual(<<0, 3>>)>>

PopulationFrame ==
    UNCHANGED <<cfg, m_lb, m_ub, m_x, m_active_nodes, m_active_genes, current, left, retval,
                m_weights, m_biases, grad, epoch, sr>>

\* momes4cgp::evolve up to the first loop of the first generation, on an
\* algorithm constructed with m_gen and max_mut and set to verbosity
Evolve(m_gen, max_mut, verbosity) ==
    /\ pc = "idle"
    /\ IF Len(pop.pop) < 2
       THEN /\ call' = [name |-> "evolve", threw |-> TRUE]
            /\ UNCHANGED <<pc, pop>>
       ELSE /\ call' = [name |-> "evolve", threw |-> FALSE]
            /\ IF m_gen = 0
               THEN /\ pop' = [pop EXCEPT !.m_gen = 0, !.gen = 0, !.max_mut = max_mut, !.verbosity = verbosity]
                    /\ UNCHANGED pc
               ELSE /\ pop' \in Generations([pop EXCEPT !.m_gen = m_gen, !.max_mut = max_mut,
                                                        !.verbosity = verbosity, !.log = <<>>, !.fevals = 0], 1)
                    /\ pc' = "evolve_mutate"
    /\ PopulationFrame

\* one pass of the first loop: the graph of individual i is set, mutated
\* n_active_mutations[i] times and read back to g
MutateIndividual(g) ==
    /\ pc = "evolve_mutate"
    /\ LET parent == pop.pop[pop.i + 1].x
       IN /\ g \in MutateActiveGraph(parent[2], pop.n_active_mutations[pop.i + 1])
          /\ pop' = [pop EXCEPT !.mutated_x = Append(pop.mutated_x, <<parent[1], g>>),
                                !.i = IF pop.i + 1 = Len(pop.pop) THEN 0 ELSE pop.i + 1]
    /\ pc' = IF pop.i + 1 = Len(pop.pop) THEN "evolve_newton" ELSE "evolve_mutate"
    /\ UNCHANGED call
    /\ PopulationFrame

\* one pass of the second loop: the Newton step leaves the constant of
\* candidate i at c, the candidate is evaluated and, if accepted, pushed back
\* to popnew
Candidate(c) ==
    /\ pc = "evolve_newton"
    /\ pop.i < Len(pop.pop)
    /\ LET x == <<c, pop.mutated_x[pop.i + 1][2]>>
           f == ProblemFitness(x)
       IN pop' = [pop EXCEPT !.i = pop.i + 1,
                             !.mutated_x[pop.i + 1] = x,
                             !.fevals = pop.fevals + 1,
                             !.popnew = IF Accepts(FitnessVectors(pop.popnew), f)
                                        THEN Append(pop.popnew, Individual(x))
                                        ELSE pop.popnew]
    /\ UNCHANGED <<pc, call>>
    /\ PopulationFrame

\* the selection of the generation and either the head of the next
\* generation or the last log line and the return
Select ==
    /\ pc = "evolve_newton"
    /\ pop.i = Len(pop.pop)
    /\ \E best_idx \in SelectBestNMo(FitnessVectors(pop.popnew), Len(pop.pop)) :
          LET selected == [i \in 1 .. Len(pop.pop) |-> Reinserted(pop.popnew, best_idx, i)]
              p == [pop EXCEPT !.pop = selected]
          IN IF pop.gen < pop.m_gen
             THEN /\ pop' \in Generations(p, pop.gen + 1)
                  /\ pc' = "evolve_mutate"
             ELSE /\ pop' = [p EXCEPT !.log = IF p.verbosity > 0 THEN LogSingleLine(p, p.m_gen) ELSE p.log]
                  /\ pc' = "idle"
    /\ UNCHANGED call
    /\ PopulationFrame

EvolveAny == \E m_gen \in 0 .. MaxGen, max_mut \in 1 .. MaxMut : Evolve(m_gen, max_mut, 0)

EvolveVerboseAny == \E m_gen \in 0 .. MaxLogGen, verbosity \in 0 .. MaxVerbosity : Evolve(m_gen, MaxMut, verbosity)

MutateIndividualAny == \E g \in Graphs : MutateIndividual(g)

CandidateAny == \E c \in Constants : Candidate(c)

NextPopulation ==
    \/ EvolveAny
    \/ MutateIndividualAny
    \/ CandidateAny
    \/ Select

SpecPopulation == InitPopulation /\ [][NextPopulation]_vars

\* evolve with a log
NextLog ==
    \/ EvolveVerboseAny
    \/ MutateIndividualAny
    \/ CandidateAny
    \/ Select

SpecLog == InitLog /\ [][NextLog]_vars

-----------------------------------------------------------------------------
(* momes4cgp::evolve: the Newton step on the constants of one candidate.    *)
(* A double is <<num, den>>: a fraction in lowest terms with den > 0, or    *)
(* <<1, 0>> and <<-1, 0>> for the infinities and <<0, 0>> for NaN.  The     *)
(* sign of a zero is not kept.  Vectors are indexed from 0.                 *)

NaN == <<0, 0>>

Zero == <<0, 1>>

Finite(a) == a[2] # 0

Sign(v) == IF v < 0 THEN 0 - 1 ELSE IF v > 0 THEN 1 ELSE 0

\* a - b
Minus(a, b) ==
    IF Finite(a) /\ Finite(b) THEN Frac(a[1] * b[2] - b[1] * a[2], a[2] * b[2])
    ELSE IF a = NaN \/ b = NaN THEN NaN
    ELSE IF Finite(a) THEN <<0 - b[1], 0>>
    ELSE IF Finite(b) THEN a
    ELSE IF a = b THEN NaN ELSE a

\* a / b
Over(a, b) ==
    IF a = NaN \/ b = NaN THEN NaN
    ELSE IF Finite(a) /\ Finite(b)
         THEN IF b[1] = 0
              THEN <<Sign(a[1]), 0>>
              ELSE Frac(a[1] * b[2] * Sign(b[1]), a[2] * Abs(b[1]))
    ELSE IF Finite(a) THEN Zero
    ELSE IF Finite(b) THEN <<a[1] * (IF b[1] < 0 THEN 0 - 1 ELSE 1), 0>>
    ELSE NaN

\* a * b, of finite doubles
Times(a, b) == Frac(a[1] * b[1], a[2] * b[2])

\* prob.hessians_sparsity()[0]: the pairs (i, j), j <= i < n_eph, row by row
HessiansSparsity(n_eph) ==
    [k \in 0 .. (n_eph * (n_eph + 1)) \div 2 - 1 |->
        CHOOSE p \in (0 .. n_eph - 1) \X (0 .. n_eph - 1) :
            p[2] <= p[1] /\ (p[1] * (p[1] + 1)) \div 2 + p[2] = k]

\* the indices j with grad[j] != 0., in increasing order
NonZero(gradient) == SortedSeq({j \in DOMAIN gradient : gradient[j] # Zero})

\* hess[0][non_zero[0]]: the entry of the sparse Hessian read by the step on
\* a single constant
ScalarHessian(hess, j) == hess[j]

RECURSIVE ReducedHessian(_, _, _, _, _, _)
\* the loop over the sparse Hessian that fills H_red from entry j on
ReducedHessian(hess, hs, S, j, at, H_red) ==
    IF j = Size0(hess)
    THEN H_red
    ELSE IF hs[j][1] \in S /\ hs[j][2] \in S
         THEN LET filled == [H_red EXCEPT ![<<at.row, at.col>>] = hess[j], ![<<at.col, at.row>>] = hess[j]]
              IN IF hs[j][1] = hs[j][2]
                 THEN ReducedHessian(hess, hs, S, j + 1, [row |-> at.row + 1, col |-> 0], filled)
                 ELSE ReducedHessian(hess, hs, S, j + 1, [row |-> at.row, col |-> at.col + 1], filled)
         ELSE ReducedHessian(hess, hs, S, j + 1, at, H_red)

\* Eigen::FullPivLU of a 2 x 2 matrix of finite entries: the diagonals of U
\* it can compute.  The pivot is an entry of largest absolute value (which of
\* several is open), brought to the corner by a swap of rows and of columns.
FullPivLU(H) ==
    LET largest == {p \in DOMAIN H : \A q \in DOMAIN H : Abs(H[p][1]) * H[q][2] >= Abs(H[q][1]) * H[p][2]}
    IN {IF H[p] = Zero
        THEN <<Zero, Zero>>
        ELSE <<H[p], Minus(H[<<1 - p[1], 1 - p[2]>>],
                           Over(Times(H[<<1 - p[1], p[2]>>], H[<<p[1], 1 - p[2]>>]), H[p]))>> :
        p \in largest}

\* fullpivlu.isInvertible() && (fullpivlu.matrixLU().diagonal().array() >= 0.).all();
\* the inverse of a matrix of finite entries that passes is finite
StepAllowed(U) == /\ U[1] # Zero /\ U[2] # Zero
                  /\ U[1][1] >= 0 /\ U[2][1] >= 0

\* fullpivlu.inverse() * G_red subtracted from C_red, for a 2 x 2 matrix
Refined(H, G_red, C_red) ==
    LET det == Minus(Times(H[<<0, 0>>], H[<<1, 1>>]), Times(H[<<0, 1>>], H[<<1, 0>>]))
        step0 == Over(Minus(Times(H[<<1, 1>>], G_red[0]), Times(H[<<0, 1>>], G_red[1])), det)
        step1 == Over(Minus(Times(H[<<0, 0>>], G_red[1]), Times(H[<<1, 0>>], G_red[0])), det)
    IN [j \in 0 .. 1 |-> Minus(C_red[j], IF j = 0 THEN step0 ELSE step1)]

\* C_red as a matrix of its own: C keeps its entries
TopLeftCornerCopied(C, C_red) == C

\* auto C_red = C.topLeftCorner(n_non_zero, 1): what is assigned to C_red is
\* written to the first entries of C
TopLeftCorner(C, C_red) == [j \in DOMAIN C |-> IF j \in DOMAIN C_red THEN C_red[j] ELSE C[j]]

\* The Newton step of evolve on the constants x with gradient and sparse
\* Hessian as the problem returns them, C being the vector of constants of
\* the algorithm: the constants and the C it can leave.
NewtonStep(x, gradient, hess, C) ==
    LET n_eph == Size0(x)
        non_zero == NonZero(gradient)
        S == Range(non_zero)
        skipped == [x |-> x, C |-> C, step |-> "none"]
    IN IF n_eph = 1
       THEN IF gradient[0] # Zero
            THEN {[x |-> [x EXCEPT ![0] = Minus(x[0], Over(gradient[0], hess[0]))], C |-> C, step |-> "scalar"]}
            ELSE {skipped}
       ELSE IF Len(non_zero) = 1
            THEN LET j == non_zero[1]
                 IN {[x |-> [x EXCEPT ![j] = Minus(x[j], Over(gradient[j], ScalarHessian(hess, j)))], C |-> C,
                      step |-> "scalar"]}
       ELSE IF Len(non_zero) > 1
            THEN LET H_red == ReducedHessian(hess, HessiansSparsity(n_eph), S, 0, [row |-> 0, col |-> 0],
                                             [p \in (0 .. 1) \X (0 .. 1) |-> Zero])
                     read == [j \in 0 .. 1 |-> x[non_zero[j + 1]]]
                     G_red == [j \in 0 .. 1 |-> gradient[non_zero[j + 1]]]
                     C_read == TopLeftCorner(C, read)
                 IN IF \A j \in 0 .. 1 : Finite(G_red[j])
                    THEN {IF StepAllowed(U)
                          THEN LET C_new == TopLeftCorner(C_read, Refined(H_red, G_red, read))
                               IN [x |-> [j \in DOMAIN x |->
                                             IF j \in S
                                             THEN C_new[CHOOSE q \in 0 .. 1 : non_zero[q + 1] = j]
                                             ELSE x[j]],
                                   C |-> C_new, step |-> "matrix"]
                          ELSE [skipped EXCEPT !.C = C_read] : U \in FullPivLU(H_red)}
                    ELSE {[skipped EXCEPT !.C = C_read]}
            ELSE {skipped}

\* the numbers of constants of the problems
EphCounts == {1, 2, 3}

\* the constants of a candidate before its Newton step
ConstantValues == {Zero, <<1, 1>>}

\* the gradients the problem returns: at most two coordinates are not zero
GradientValues(n_eph) ==
    IF n_eph = 3 THEN {Zero, <<1, 1>>, <<2, 1>>} ELSE {Zero, <<1, 1>>, <<2, 1>>, <<1, 0>>}

Gradients(n_eph) ==
    {g \in [0 .. n_eph - 1 -> GradientValues(n_eph)] : Cardinality({j \in DOMAIN g : g[j] # Zero}) <= 2}

\* the sparse Hessians the problem returns; where the step uses the matrix
\* decomposition (two gradient coordinates not zero) their entries are finite
HessianValues(n_eph) ==
    IF n_eph = 3 THEN {Zero, <<1, 1>>, <<2, 1>>} ELSE {<<0 - 1, 1>>, Zero, <<1, 1>>, <<2, 1>>, <<1, 0>>}

Hessians(n_eph, gradient) ==
    {h \in [0 .. (n_eph * (n_eph + 1)) \div 2 - 1 -> HessianValues(n_eph)] :
        Cardinality({j \in DOMAIN gradient : gradient[j] # Zero}) > 1 => \A k \in DOMAIN h : Finite(h[k])}

InitNewton ==
    /\ NoExpression
    /\ call = [name |-> "evolve", threw |-> FALSE]
    /\ m_weights = <<>> /\ m_biases = <<>> /\ grad = <<>> /\ epoch = <<>> /\ sr = <<>>
    /\ \E n_eph \in EphCounts : \E x \in [0 .. n_eph - 1 -> ConstantValues] :
          pop = [x |-> x, parent |-> x, C |-> [j \in 0 .. n_eph - 1 |-> Zero], grad |-> <<>>, hess |-> <<>>,
                 step |-> "none", refined |-> FALSE]

\* the Newton step of the second loop of evolve on one candidate
Newton(gradient, hess) ==
    /\ pc = "idle"
    /\ ~pop.refined
    /\ \E out \in NewtonStep(pop.x, gradient, hess, pop.C) :
          pop' = [pop EXCEPT !.x = out.x, !.C = out.C, !.step = out.step, !.grad = gradient, !.hess = hess,
                             !.refined = TRUE]
    /\ UNCHANGED <<pc, call>>
    /\ PopulationFrame

NewtonAny ==
    /\ ~pop.refined
    /\ \E gradient \in Gradients(Size0(pop.x)) : \E hess \in Hessians(Size0(pop.x), gradient) : Newton(gradient, hess)

NextNewton ==
    \/ NewtonAny

SpecNewton == InitNewton /\ [][NextNewton]_vars

-----------------------------------------------------------------------------
(* Properties *)

\* the chromosome x has the length fixed at construction and every gene within its bounds
WithinBounds(x) ==
    /\ Size0(x) = ChromosomeSize(cfg)
    /\ \A i \in 0 .. ChromosomeSize(cfg) - 1 : m_lb[i] <= x[i] /\ x[i] <= m_ub[i]

\* the node a connection or function gene belongs to
NodeOfGene(g) == cfg.n + (g \div (cfg.arity + 1))

\* the connection genes: the genes 1 .. arity of every internal node
ConnectionGenes ==
    {j * (cfg.arity + 1) + t : j \in 0 .. cfg.r * cfg.c - 1, t \in 1 .. cfg.arity}

RECURSIVE Closure(_, _)
\* the least set of nodes that holds S and the connections of its internal nodes
Closure(x, S) ==
    LET T == S \cup {x[(j - cfg.n) * (cfg.arity + 1) + t] :
                        j \in {k \in S : k >= cfg.n}, t \in 1 .. cfg.arity}
    IN IF T = S THEN S ELSE Closure(x, T)

\* the nodes reachable from the output genes of x
ReachableNodes(x) ==
    Closure(x, {x[(cfg.arity + 1) * cfg.r * cfg.c + i] : i \in 0 .. cfg.m - 1})

\* the active-node list that belongs to x
ExpectedNodes(x) == SortedSeq(ReachableNodes(x))

\* the active-gene list that belongs to x
ExpectedGenes(x) ==
    SortedSeq({(j - cfg.n) * (cfg.arity + 1) + t :
                  j \in {k \in ReachableNodes(x) : k >= cfg.n}, t \in 0 .. cfg.arity})
        \o [i \in 1 .. cfg.m |-> (cfg.arity + 1) * cfg.r * cfg.c + i - 1]

\* C1: Validity is closed under mutation: after the constructor and any
\* sequence of mutation operators the chromosome has its original length and
\* every gene lies within its bounds.
C1_ValidityClosedUnderMutation == WithinBounds(m_x)

\* a mutation operator has changed a gene of the chromosome and returned
C1_Witness ==
    /\ pc = "idle"
    /\ call.name \in {"mutate", "mutate_idxs", "mutate_random", "mutate_ogene"} \cup LoopMethods
    /\ ~call.threw
    /\ Len(m_active_nodes) >= 2

\* C2: In every chromosome within the bounds each connection gene of a node
\* is strictly smaller than the node's own index, so the graph is acyclic.
C2_ConnectionsBelowNode ==
    WithinBounds(m_x) => \A g \in ConnectionGenes : m_x[g] < NodeOfGene(g)

\* C3: mutate(idxs) fails when an index is at least the chromosome length,
\* succeeds otherwise, and a failing call leaves the chromosome and the
\* active lists as they were.
C3_MutateIdxsAtomic ==
    [][(pc = "idle" /\ call'.name = "mutate_idxs") =>
          \A idxs \in TuplesUpTo(0 .. Size0(m_x), MaxIdxs) :
              MutateIdxs(idxs) =>
                  IF \E i \in 1 .. Len(idxs) : idxs[i] >= Size0(m_x)
                  THEN /\ call'.threw
                       /\ m_x' = m_x
                       /\ m_active_nodes' = m_active_nodes
                       /\ m_active_genes' = m_active_genes
                  ELSE ~call'.threw]_vars

\* the operation that made the last step is still running or has returned
\* after update_data_structures
Returned(name) == pc = "idle" /\ call.name = name /\ ~call.threw

\* C4: set(x) throws and leaves the chromosome and the active lists unchanged
\* when x has the wrong length or a gene outside its bounds; otherwise it
\* does not throw, the chromosome becomes x, and the call returns with the
\* active nodes and active genes recomputed from x.
C4_SetRejectsOrSucceeds ==
    /\ [][(pc = "idle" /\ call'.name = "set") =>
             \A x \in SetInputs :
                 Set(x) =>
                     IF WithinBounds(x)
                     THEN ~call'.threw /\ m_x' = x
                     ELSE /\ call'.threw
                          /\ m_x' = m_x
                          /\ m_active_nodes' = m_active_nodes
                          /\ m_active_genes' = m_active_genes]_vars
    /\ []((call.name = "set" /\ ~call.threw) =>
             <>(/\ Returned("set")
                /\ m_active_nodes = ExpectedNodes(m_x)
                /\ m_active_genes = ExpectedGenes(m_x)))

\* C5: When update_data_structures returns, the active-node list is the set
\* of nodes reachable from the output genes, in strictly ascending order,
\* and the active-gene list is the arity+1 genes of every active internal
\* node followed by the m output genes.
C5_ActiveListsAreReachable ==
    [][(pc = "uds" /\ pc' # "uds") =>
          /\ m_active_nodes' = ExpectedNodes(m_x')
          /\ \A i \in 1 .. Len(m_active_nodes') - 1 : m_active_nodes'[i] < m_active_nodes'[i + 1]
          /\ m_active_genes' = ExpectedGenes(m_x')]_vars

\* update_data_structures has returned with two internal nodes and an input active
C5_Witness ==
    /\ pc = "idle"
    /\ Len(m_active_nodes) >= 3
    /\ Len(m_active_genes) = 2 * (cfg.arity + 1) + cfg.m

\* C6: Whenever no public operation is running, whatever it was and whether
\* or not it threw, the active lists are those recomputed from the chromosome.
C6_ActiveListsInSync ==
    (pc = "idle") =>
        /\ m_active_nodes = ExpectedNodes(m_x)
        /\ m_active_genes = ExpectedGenes(m_x)

\* C7: mutate(i) with i below the chromosome length gives gene i a different
\* value within its bounds if lb[i] < ub[i] and changes nothing if
\* lb[i] = ub[i], every other gene keeps its value, and the chromosome stays
\* as mutate(i) left it while the active lists are refreshed; with i at least
\* the chromosome length it throws and changes nothing.
C7_MutateFrame ==
    /\ [][(pc = "idle" /\ call'.name = "mutate") =>
             \A i \in 0 .. Size0(m_x) :
                 Mutate(i) =>
                     IF i >= Size0(m_x)
                     THEN /\ call'.threw
                          /\ m_x' = m_x
                          /\ m_active_nodes' = m_active_nodes
                          /\ m_active_genes' = m_active_genes
                     ELSE /\ ~call'.threw
                          /\ m_lb[i] < m_ub[i] =>
                                 m_x'[i] # m_x[i] /\ m_lb[i] <= m_x'[i] /\ m_x'[i] <= m_ub[i]
                          /\ m_lb[i] = m_ub[i] => m_x' = m_x
                          /\ \A j \in DOMAIN m_x \ {i} : m_x'[j] = m_x[j]
                          /\ DOMAIN m_x' = DOMAIN m_x]_vars
    /\ [][(call.name = "mutate" /\ pc = "uds") => m_x' = m_x]_vars

\* mutate(i) has changed an active gene and refreshed the active lists
C7_Witness ==
    /\ Returned("mutate")
    /\ m_active_nodes = <<0, 1>>

\* the positions that the draws sel give exactly once
DrawnOnce(sel) == {g \in Range(sel) : Cardinality({i \in 1 .. Len(sel) : sel[i] = g}) = 1}

\* C8 (as stated): mutate_random(k) draws k pairwise distinct positions, so
\* every drawn gene with more than one admissible value ends the call with a
\* value different from the one it had before the call.
C8_DistinctPositions ==
    [][(pc = "idle" /\ call'.name = "mutate_random") =>
          \A sel \in TuplesUpTo(RandomPositions, MaxN) :
              MutateRandomDraws(sel) =>
                  /\ \A i, j \in 1 .. Len(sel) : i # j => sel[i] # sel[j]
                  /\ \A g \in Range(sel) : m_lb[g] < m_ub[g] => m_x'[g] # m_x[g]]_vars

\* C8 (amended): mutate_random(k) makes k independent draws of a position,
\* with replacement, and never throws.  A gene that is not drawn keeps its
\* value, a drawn gene stays within its bounds, and a gene with more than
\* one admissible value that is drawn exactly once ends the call with a
\* value different from the one it had before the call.
C8_DrawsWithReplacement ==
    [][(pc = "idle" /\ call'.name = "mutate_random") =>
          \A sel \in TuplesUpTo(RandomPositions, MaxN) :
              MutateRandomDraws(sel) =>
                  /\ ~call'.threw
                  /\ DOMAIN m_x' = DOMAIN m_x
                  /\ \A g \in DOMAIN m_x \ Range(sel) : m_x'[g] = m_x[g]
                  /\ \A g \in Range(sel) : m_lb[g] <= m_x'[g] /\ m_x'[g] <= m_ub[g]
                  /\ \A g \in DrawnOnce(sel) : m_lb[g] < m_ub[g] => m_x'[g] # m_x[g]]_vars

\* mutate_random has changed genes, an output gene among them, and returned
C8_Witness ==
    /\ Returned("mutate_random")
    /\ m_x[(cfg.arity + 1) * cfg.r * cfg.c] > 0

\* C9: Every mutate(idx) and mutate_active(N) call on a constructed
\* expression returns.
C9_MutateTerminates ==
    [](((call.name \in {"mutate", "mutate_active"}) /\ pc # "idle") => <>(pc = "idle"))

\* C10 (as stated): set accepts the chromosome of the grammar check, and then
\* the expression maps the point (1, 1) to (2, 2) and the point (1, 0) to (0, 0).
C10_GrammarCheck ==
    (pc = "idle" /\ call.name = "set") =>
        /\ ~call.threw
        /\ m_x = GrammarChromosome
        /\ Evaluate(Vec(<<1, 1>>)) = <<Num(2), Num(2)>>
        /\ Evaluate(Vec(<<1, 0>>)) = <<Num(0), Num(0)>>

\* C10 (amended): the expression built with n=2, m=2, r=2, c=3, L=2, arity=2
\* has r*c*(arity+1)+m = 20 genes, so set throws on the 14-gene chromosome of
\* the grammar check and the chromosome keeps its 20 genes.
C10_GrammarChromosomeRejected ==
    /\ Size0(m_x) = cfg.r * cfg.c * (cfg.arity + 1) + cfg.m
    /\ Size0(m_x) # Size0(GrammarChromosome)
    /\ (call.name = "set") => (call.threw /\ pc = "idle")

\* set has been called with the chromosome of the grammar check and has thrown
C10_Witness == pc = "idle" /\ call.name = "set" /\ call.threw /\ Size0(m_x) = 20

\* the squared errors of all outputs of all samples from i on, added up
RECURSIVE TotalSquaredError(_, _)
TotalSquaredError(x, i) ==
    IF i > Len(sr.points) THEN 0
    ELSE SquaredError(Phenotype(x.g, x.c, sr.points[i]), sr.labels[i], 1) + TotalSquaredError(x, i + 1)

\* C11 (as stated): fitness(x)[0] is the squared error summed over the outputs
\* and averaged over the samples, (1/N) * sum over samples of sum over outputs
\* of (output - label)^2.
C11_SummedOverOutputs ==
    (call.name = "fitness") => sr.ret = Frac(TotalSquaredError(sr.x, 1), Len(sr.points))

\* C11 (amended): fitness(x)[0] is the squared error averaged over the outputs
\* and over the samples, (1/(N*m)) * sum over samples of sum over outputs of
\* (output - label)^2, and it is the value fitness_test expects wherever the
\* test has an assertion.
C11_MeanOverOutputsAndSamples ==
    (call.name = "fitness") =>
        /\ sr.ret = Frac(TotalSquaredError(sr.x, 1), Len(sr.points) * Len(sr.labels[1]))
        /\ \A t \in FitnessTests :
             (t.g = sr.x.g /\ t.c = sr.x.c /\ t.points = sr.points /\ t.labels = sr.labels)
                 => sr.ret = t.expected

\* fitness has run on one sample with outputs (2, 2) and labels (0, 0)
C11_Witness ==
    /\ call.name = "fitness"
    /\ sr.x.g = TestX
    /\ sr.points = << <<1, 1>> >>
    /\ sr.labels = << <<0, 0>> >>
    /\ sr.ret = <<4, 1>>

C13_ConstructionFails ==
    (call.name = "symbolic_regression") =>
        /\ ( \/ Len(sr.points) = 0
             \/ Len(sr.points) # Len(sr.labels)
             \/ Ragged(sr.points)
             \/ Ragged(sr.labels)
             \/ sr.r = 0
             \/ sr.c = 0
             \/ sr.l = 0
             \/ sr.arity = 1
             \/ sr.nf = 0 ) => call.threw
        /\ (sr = DefaultArguments) => ~call.threw

\* the flat index of the weight of input input_id of node node_id: the
\* arities of the internal nodes before node_id added up, plus input_id
FlatIndex(node_id, input_id) == (node_id - cfg.n) * cfg.arity + input_id

ValidWeightIds(node_id, input_id) ==
    /\ cfg.n <= node_id
    /\ node_id < cfg.n + cfg.r * cfg.c
    /\ input_id < cfg.arity

\* C14: set_weight(node_id, input_id, w) with valid ids writes w to the
\* weight of input input_id of node node_id and leaves every other weight
\* unchanged, and get_weight(node_id, input_id) returns that entry.
C14_SetWeightWritesItsEntry ==
    [][/\ (pc = "idle" /\ call'.name = "set_weight") =>
             \A node_id \in NodeIds, input_id \in InputIds, w \in WeightValues :
                 (ValidWeightIds(node_id, input_id) /\ SetWeight(node_id, input_id, w)) =>
                     m_weights' = [m_weights EXCEPT ![FlatIndex(node_id, input_id)] = w]
       /\ (pc = "idle" /\ call'.name = "get_weight") =>
             \A node_id \in NodeIds, input_id \in InputIds :
                 (ValidWeightIds(node_id, input_id) /\ GetWeight(node_id, input_id)) =>
                     retval' = <<m_weights[FlatIndex(node_id, input_id)]>>]_vars

\* C15: set_weight(idx, w) with idx >= number of weights and set_bias(idx, w)
\* with idx >= r*c throw, set_weights / set_biases throw on a vector of the
\* wrong length, a call that fails leaves weights and biases unchanged, and
\* the weight vector has r * (sum of the column arities) entries and the bias
\* vector r*c entries.
C15_SettersCheckStrictly ==
    [][/\ (pc = "idle" /\ call'.name = "set_weight_idx") =>
             \A idx \in 0 .. Size0(m_weights), w \in WeightValues :
                 (idx >= Size0(m_weights) /\ SetWeightAt(idx, w)) =>
                     (call'.threw /\ UNCHANGED <<m_weights, m_biases>>)
       /\ (pc = "idle" /\ call'.name = "set_bias") =>
             \A idx \in 0 .. Size0(m_biases), w \in WeightValues :
                 (idx >= cfg.r * cfg.c /\ SetBiasAt(idx, w)) =>
                     (call'.threw /\ UNCHANGED <<m_weights, m_biases>>)
       /\ (pc = "idle" /\ call'.name = "set_weights") =>
             \A ws \in VectorsFor(m_weights) :
                 (Size0(ws) # Size0(m_weights) /\ SetWeights(ws)) =>
                     (call'.threw /\ UNCHANGED <<m_weights, m_biases>>)
       /\ (pc = "idle" /\ call'.name = "set_biases") =>
             \A bs \in VectorsFor(m_biases) :
                 (Size0(bs) # Size0(m_biases) /\ SetBiases(bs)) =>
                     (call'.threw /\ UNCHANGED <<m_weights, m_biases>>)
       /\ Size0(m_weights') = cfg.r * (cfg.c * cfg.arity)
       /\ Size0(m_biases') = cfg.r * cfg.c]_vars

\* the internal nodes
InternalNodes == cfg.n .. cfg.n + cfg.r * cfg.c - 1

\* C16: After d_loss on one sample, with MSE or CE loss, the weight-gradient
\* entries and the bias-gradient entry of every internal node that is not
\* active are 0, and every active internal node has had its gradient entries
\* written by the backward sweep.
C16_GradientOfInactiveNodesIsZero ==
    (call.name = "d_loss" /\ ~call.threw) =>
        \A id \in InternalNodes :
            IF id \in Range(m_active_nodes)
            THEN id \in grad.written
            ELSE /\ grad.gbiases[id - cfg.n] = 0
                 /\ \A j \in 0 .. cfg.arity - 1 : grad.gweights[(id - cfg.n) * cfg.arity + j] = 0

\* d_loss has returned a non-zero gradient on a network with an active and
\* an inactive internal node
C16_Witness ==
    /\ call.name = "d_loss"
    /\ ~call.threw
    /\ \E id \in InternalNodes : id \notin Range(m_active_nodes)
    /\ \E id \in InternalNodes : id \in Range(m_active_nodes) /\ grad.gbiases[id - cfg.n] # 0

\* C17: One epoch of sgd with batch_size >= 1 on K samples processes the
\* samples in the order of the data set, each once and with the label of the
\* same index, in contiguous batches of batch_size samples, the last one
\* holding the samples that remain; the chromosome is not changed.
C17_EpochVisitsEverySampleOnce ==
    (call.name = "sgd" /\ ~call.threw) =>
        /\ \A i \in 1 .. Len(epoch.log) :
              /\ epoch.log[i].sample = i - 1
              /\ epoch.log[i].label = i - 1
              /\ epoch.log[i].batch = ((i - 1) \div epoch.batch_size) + 1
        /\ Len(epoch.log) <= epoch.K
        /\ (pc = "idle") => Len(epoch.log) = epoch.K
        /\ m_x = epoch.x0

\* an epoch on three samples with batches of two has returned
C17_Witness ==
    /\ call.name = "sgd"
    /\ ~call.threw
    /\ pc = "idle"
    /\ epoch.K = 3
    /\ epoch.batch_size = 2
    /\ epoch.log[3] = [sample |-> 2, label |-> 2, batch |-> 2]

\* C18: Within one batch of sgd every gradient is evaluated at the weights
\* and biases held when the batch starts, and no weight or bias changes
\* between two gradient evaluations of the same batch: the weights and
\* biases are updated once per batch.
C18_OneUpdatePerBatch ==
    [][(pc = "update_weights" /\ epoch'.d = epoch.d + 1) =>
          /\ <<m_weights, m_biases>> = epoch.start
          /\ (epoch'.d # epoch.dlast) => UNCHANGED <<m_weights, m_biases>>]_vars

\* the chromosome set_output_f(f_id) is to leave: the function gene of every
\* internal node an output gene selects is f_id, every other gene is as before
OutputNodesSet(f_id) ==
    LET size == Size0(m_x)
        selected == {m_x[size - 1 - i] : i \in 0 .. cfg.m - 1}
    IN [k \in DOMAIN m_x |->
           IF \E node_id \in selected :
                 /\ cfg.n <= node_id
                 /\ node_id <= cfg.n + cfg.c * cfg.r - 1
                 /\ k = (node_id - cfg.n) * (cfg.arity + 1)
           THEN f_id
           ELSE m_x[k]]

\* C19: set_output_f(f_id) with a valid kernel index succeeds on every valid
\* chromosome, also when an output gene selects an input node, and leaves
\* f_id in the function gene of every internal node an output gene selects
\* and every other gene unchanged; with an invalid f_id it throws and leaves
\* the chromosome unchanged.
C19_SetOutputFSetsSelectedNodes ==
    [][(pc = "idle" /\ call'.name = "set_output_f") =>
          \A f_id \in 0 .. cfg.nf :
              SetOutputF(f_id) =>
                  IF f_id <= cfg.nf - 1
                  THEN ~call'.threw /\ m_x' = OutputNodesSet(f_id)
                  ELSE call'.threw /\ m_x' = m_x]_vars

\* the candidates of the generation the diversity mechanism lets into the
\* pool: those of finite loss whose fitness is neither the fitness of a
\* parent nor the fitness of an earlier candidate of the generation
AcceptedCandidates ==
    {Individual(pop.mutated_x[k]) : k \in
        {j \in 1 .. Len(pop.mutated_x) :
            LET f == ProblemFitness(pop.mutated_x[j])
            IN /\ IsFinite(f[1])
               /\ \A q \in 1 .. Len(pop.parents) : pop.parents[q].f # f
               /\ \A q \in 1 .. j - 1 : ProblemFitness(pop.mutated_x[q]) # f}}

\* parents and accepted candidates of the generation
Pool == Range(pop.parents) \cup AcceptedCandidates

\* the selection of a generation is about to be made
Selecting == pc = "evolve_newton" /\ pop.i = Len(pop.pop)

\* C20 as stated: the population one generation returns has exactly N
\* individuals, each of them a parent or an accepted candidate of the
\* generation, and these individuals are mutually non-dominated.
C20_MutuallyNonDominated ==
    [][Selecting =>
          /\ Len(pop'.pop) = Len(pop.parents)
          /\ Range(pop'.pop) \subseteq Pool
          /\ \A a, b \in Range(pop'.pop) : ~Dominates(a.f, b.f)]_vars

\* C20, amended: the population one generation returns has exactly N
\* individuals, each of them a parent or an accepted candidate of the
\* generation, and every individual of the pool that dominates a returned
\* individual is returned too; the returned individuals are mutually
\* non-dominated when the pool has at least N non-dominated individuals.
C20_BestOfThePool ==
    [][Selecting =>
          /\ Len(pop'.pop) = Len(pop.parents)
          /\ Range(pop'.pop) \subseteq Pool
          /\ \A a \in Pool, b \in Range(pop'.pop) : Dominates(a.f, b.f) => a \in Range(pop'.pop)
          /\ (Cardinality({a \in Pool : \A b \in Pool : ~Dominates(b.f, a.f)}) >= Len(pop.parents)) =>
                \A a, b \in Range(pop'.pop) : ~Dominates(a.f, b.f)]_vars

\* evolve has returned from a generation that took a candidate into the
\* population next to a parent the candidate dominates
C20_Witness ==
    /\ pc = "idle"
    /\ call = [name |-> "evolve", threw |-> FALSE]
    /\ pop.gen >= 1
    /\ \E a, b \in Range(pop.pop) :
          /\ a \notin Range(pop.parents)
          /\ a.x \in Range(pop.mutated_x)
          /\ b \in Range(pop.parents)
          /\ Dominates(a.f, b.f)

\* the function genes: gene 0 of every internal node
FunctionGenes == {j * (cfg.arity + 1) : j \in 0 .. cfg.r * cfg.c - 1}

\* C28: each of the last m positions of the chromosome has the upper bound
\* n + r*c - 1 and the lower bound n + r*(c - l) when l <= c and 0 otherwise,
\* and no function or connection gene receives the bounds of an output gene.
C28_OutputGeneBounds ==
    /\ \A i \in OutputStart .. ChromosomeSize(cfg) - 1 :
          /\ m_ub[i] = cfg.n + cfg.r * cfg.c - 1
          /\ m_lb[i] = IF cfg.l <= cfg.c THEN cfg.n + cfg.r * (cfg.c - cfg.l) ELSE 0
    /\ \A g \in FunctionGenes : m_lb[g] = 0 /\ m_ub[g] <= cfg.nf - 1
    /\ \A g \in ConnectionGenes : m_ub[g] < cfg.n + cfg.r * cfg.c - 1

\* the positions at which two chromosomes differ
ChangedGenes(x, y) == {i \in DOMAIN x : x[i] # y[i]}

\* the function genes and the connection genes of the active internal nodes
ActiveFunctionGenes ==
    {(j - cfg.n) * (cfg.arity + 1) : j \in {k \in Range(m_active_nodes) : k >= cfg.n}}

ActiveConnectionGenes ==
    {(j - cfg.n) * (cfg.arity + 1) + t : j \in {k \in Range(m_active_nodes) : k >= cfg.n}, t \in 1 .. cfg.arity}

\* C29: every redraw of mutate_active_fgene(k) is of a function gene of a
\* node active at that moment, every redraw of mutate_active_cgene(k) of a
\* connection gene of such a node, mutate_ogene(k) changes output genes only
\* and at most k of them, and with k = 0 each of the three leaves the
\* chromosome unchanged.
C29_RestrictedMutations ==
    [][/\ (pc = "loop" /\ call.name = "mutate_active_fgene") =>
             ChangedGenes(m_x, m_x') \subseteq ActiveFunctionGenes
       /\ (pc = "loop" /\ call.name = "mutate_active_cgene") =>
             ChangedGenes(m_x, m_x') \subseteq ActiveConnectionGenes
       /\ (pc = "idle" /\ call'.name \in {"mutate_active_fgene", "mutate_active_cgene"}) =>
             \A name \in {"mutate_active_fgene", "mutate_active_cgene"} :
                 EnterLoop(name, 0) => (m_x' = m_x /\ pc' = "idle")
       /\ (pc = "idle" /\ call'.name = "mutate_ogene") =>
             \A N \in 0 .. MaxN :
                 MutateOgene(N) =>
                     /\ ChangedGenes(m_x, m_x') \subseteq OutputStart .. ChromosomeSize(cfg) - 1
                     /\ Cardinality(ChangedGenes(m_x, m_x')) <= N]_vars

\* C30: one epoch of sgd terminates for every batch size, 0 included, on a
\* data set and a learning rate sgd accepts: a call that has entered the loop
\* over the data set returns.
C30_SgdTerminates == (call.name = "sgd" /\ pc = "sgd") ~> (pc = "idle")

Evolved == pc = "idle" /\ call = [name |-> "evolve", threw |-> FALSE] /\ pop.m_gen >= 1

\* C22: evolve with gen = G >= 1 returns after exactly G generations; with
\* verbosity v > 0 the log then holds one line for each generation g < G that
\* is a multiple of v, in increasing order, followed by one line for
\* generation G, with non-decreasing fevals; with verbosity 0 it is empty.
C22_LogOfARun ==
    Evolved =>
        LET G == pop.m_gen
            v == pop.verbosity
            lines == Cardinality({g \in 0 .. G - 1 : g % v = 0})
        IN /\ pop.gen = G
           /\ IF v = 0
              THEN pop.log = <<>>
              ELSE /\ Len(pop.log) = lines + 1
                   /\ \A i \in 1 .. lines : pop.log[i].gen = (i - 1) * v
                   /\ pop.log[lines + 1].gen = G
                   /\ \A i \in 1 .. lines : pop.log[i].fevals <= pop.log[i + 1].fevals

\* a run of four generations with verbosity 2 has logged generations 0, 2, 4
C22_Witness ==
    /\ Evolved
    /\ pop.m_gen = 4
    /\ pop.verbosity = 2
    /\ [i \in 1 .. Len(pop.log) |-> pop.log[i].gen] = <<0, 2, 4>>
    /\ pop.log[3].fevals > pop.log[2].fevals

\* C26: a scored candidate is discarded when a component of its fitness is
\* not finite or its fitness is the fitness of a member of the pool (a parent
\* or a candidate accepted earlier in the generation) and is appended to the
\* pool otherwise; the pool holds between N and 2N individuals and no
\* accepted candidate shares its fitness with another member of the pool.
C26_DiversityMechanism ==
    [][(pc = "evolve_newton" /\ pop.i < Len(pop.pop)) =>
          LET x == pop'.mutated_x[pop.i + 1]
              f == ProblemFitness(x)
              N == Len(pop.pop)
          IN /\ IF (\E o \in 1 .. 2 : ~IsFinite(f[o])) \/ (\E q \in 1 .. Len(pop.popnew) : pop.popnew[q].f = f)
                THEN pop'.popnew = pop.popnew
                ELSE pop'.popnew = Append(pop.popnew, Individual(x))
             /\ N <= Len(pop'.popnew) /\ Len(pop'.popnew) <= 2 * N
             /\ [i \in 1 .. N |-> pop'.popnew[i]] = pop.parents
             /\ \A a \in N + 1 .. Len(pop'.popnew) : \A b \in 1 .. Len(pop'.popnew) :
                   pop'.popnew[a].f = pop'.popnew[b].f => a = b]_vars

\* a generation has discarded a candidate with the fitness of a pool member
\* and accepted another one
C26_Witness ==
    /\ pc = "evolve_newton"
    /\ pop.i = Len(pop.pop)
    /\ Len(pop.popnew) = Len(pop.pop) + 1
    /\ \E j \in 1 .. Len(pop.mutated_x) :
          /\ IsFinite(ProblemFitness(pop.mutated_x[j])[1])
          /\ Individual(pop.mutated_x[j]) \notin Range(pop.popnew)

\* the number of entries of a sequence equal to v
Count(s, v) == Cardinality({i \in 1 .. Len(s) : s[i] = v})

\* C27: in every generation the mutation strengths of the N parents are a
\* permutation of the values i mod max_mut, 0 <= i < N: every strength is
\* below max_mut and some parent has strength 0; the candidate of a parent of
\* strength 0 has the parent's graph, and the graph mutation leaves the
\* continuous part of every candidate as it was in the parent.
C27_MutationStrengths ==
    (call.name = "evolve" /\ pop.gen >= 1) =>
        LET N == Len(pop.parents)
            k == pop.n_active_mutations
        IN /\ Len(k) = N
           /\ \A v \in 0 .. N : Count(k, v) = Cardinality({i \in 0 .. N - 1 : i % pop.max_mut = v})
           /\ \A i \in 1 .. N : k[i] < pop.max_mut
           /\ \E i \in 1 .. N : k[i] = 0
           /\ \A i \in 1 .. Len(pop.mutated_x) :
                 /\ k[i] = 0 => pop.mutated_x[i][2] = pop.parents[i].x[2]
                 /\ (pc = "evolve_mutate" \/ i > pop.i) => pop.mutated_x[i][1] = pop.parents[i].x[1]

\* the graph mutation of a generation is over: one parent of strength 0 kept
\* its graph, another one had its graph changed
C27_Witness ==
    /\ pc = "evolve_newton"
    /\ pop.i = 0
    /\ \E i, j \in 1 .. Len(pop.mutated_x) :
          /\ pop.n_active_mutations[i] = 0
          /\ pop.n_active_mutations[j] > 0
          /\ pop.mutated_x[j][2] # pop.parents[j].x[2]

-----------------------------------------------------------------------------
(* The Newton step, seen from the candidate it leaves *)

\* the coordinates of the gradient that are not zero
NonZeroSet == {j \in DOMAIN pop.grad : pop.grad[j] # Zero}

\* the second derivative of the loss in the constants i and j: the entry of
\* the sparse Hessian whose sparsity pair is (i, j), i >= j
SecondDerivative(i, j) ==
    LET hs == HessiansSparsity(Size0(pop.x))
        hi == IF i >= j THEN i ELSE j
        lo == IF i >= j THEN j ELSE i
    IN pop.hess[CHOOSE k \in DOMAIN hs : hs[k] = <<hi, lo>>]

\* for at most two constants with a gradient that is not zero
HessianFinite == \A i, j \in NonZeroSet : Finite(SecondDerivative(i, j))

Determinant ==
    IF Cardinality(NonZeroSet) = 1
    THEN LET j == CHOOSE j \in NonZeroSet : TRUE IN SecondDerivative(j, j)
    ELSE LET a == CHOOSE j \in NonZeroSet : \A k \in NonZeroSet : j <= k
             b == CHOOSE j \in NonZeroSet : \A k \in NonZeroSet : j >= k
         IN Minus(Times(SecondDerivative(a, a), SecondDerivative(b, b)),
                  Times(SecondDerivative(a, b), SecondDerivative(a, b)))

HessianInvertible == Determinant # Zero

HessianPositiveSemidefinite ==
    /\ \A j \in NonZeroSet : SecondDerivative(j, j)[1] >= 0
    /\ Determinant[1] >= 0

\* C23: the Newton step changes the constants of a candidate only when the
\* gradient is finite and the Hessian, reduced to the constants with a
\* gradient that is not zero, is finite, invertible and positive
\* semidefinite; otherwise the candidate keeps the constants of its parent.
C23_NewtonStepGuarded ==
    (pop.refined /\ pop.x # pop.parent) =>
        /\ \A j \in NonZeroSet : Finite(pop.grad[j])
        /\ HessianFinite
        /\ HessianInvertible
        /\ HessianPositiveSemidefinite

\* C24: with more than one constant and a single gradient coordinate j that
\* is not zero, constant j becomes c_j - g_j / H(j, j), H(j, j) being the
\* entry of the sparse Hessian whose sparsity pair is (j, j).
C24_ScalarStepUsesDiagonal ==
    (pop.refined /\ Size0(pop.x) > 1 /\ Cardinality(NonZeroSet) = 1) =>
        \A j \in NonZeroSet :
            pop.x[j] = Minus(pop.parent[j], Over(pop.grad[j], SecondDerivative(j, j)))

\* c_S - H_S^-1 g_S for two constants a < b with a gradient that is not zero
RefinedReduced ==
    LET a == CHOOSE j \in NonZeroSet : \A k \in NonZeroSet : j <= k
        b == CHOOSE j \in NonZeroSet : \A k \in NonZeroSet : j >= k
        S == [j \in 0 .. 1 |-> IF j = 0 THEN a ELSE b]
    IN Refined([p \in (0 .. 1) \X (0 .. 1) |-> SecondDerivative(S[p[1]], S[p[2]])],
               [j \in 0 .. 1 |-> pop.grad[S[j]]],
               [j \in 0 .. 1 |-> pop.parent[S[j]]])

\* C25: when the step with the inverse of the reduced Hessian is applied,
\* the j-th constant with a gradient that is not zero becomes the j-th entry
\* of c_S - H_S^-1 g_S and every other constant keeps its value.
C25_WriteBackOfRefined ==
    (pop.refined /\ pop.step = "matrix") =>
        /\ \A j \in 0 .. 1 : pop.x[SortedSeq(NonZeroSet)[j + 1]] = RefinedReduced[j]
        /\ \A j \in DOMAIN pop.x \ NonZeroSet : pop.x[j] = pop.parent[j]

\* a step on the first and the last of three constants that moves both, the
\* constant between them being one
C25_Witness ==
    /\ pop.refined /\ pop.step = "matrix"
    /\ NonZeroSet = {0, 2}
    /\ pop.parent[1] = <<1, 1>>
    /\ SecondDerivative(2, 0) # Zero
    /\ pop.x[0] # pop.parent[0] /\ pop.x[2] # pop.parent[2] /\ pop.x[0] # pop.x[2]

====
